---- MODULE Spec2Model ----
(***************************************************************************)
(* Model of the file indexing and priority classification pipeline of the  *)
(* AutoInfra agent: DefaultFileUtils (utils/file-utils.ts), the error      *)
(* factory, and FileIndexer.indexCodebase (analyzers/file-indexer.ts).     *)
(* Paths, warnings and error messages are real strings; the string         *)
(* helpers below compute what the JavaScript built-ins compute.            *)
(***************************************************************************)
EXTENDS Integers, Sequences, FiniteSets, TLC

(***************************************************************************)
(* JavaScript string built-ins                                             *)
(***************************************************************************)

\* the i-th character of s, as a one-character string
CharAt(s, i) == SubSeq(s, i, i)

\* String.prototype.includes
Includes(s, p) == \E i \in 1..(Len(s) - Len(p) + 1) : SubSeq(s, i, i + Len(p) - 1) = p

\* String.prototype.endsWith
EndsWith(s, p) == Len(p) <= Len(s) /\ SubSeq(s, Len(s) - Len(p) + 1, Len(s)) = p

\* String.prototype.startsWith
StartsWith(s, p) == Len(p) <= Len(s) /\ SubSeq(s, 1, Len(p)) = p

\* Array.prototype.includes on a list of strings kept as a set
ListIncludes(list, s) == s \in list

\* positions of the separator character c in s
SepPositions(s, c) == {i \in 1..Len(s) : CharAt(s, i) = c}

\* s.split(c).pop(): the text after the last occurrence of c (all of s when
\* c does not occur)
SplitPop(s, c) ==
  LET ps == SepPositions(s, c)
      last == IF ps = {} THEN 0 ELSE CHOOSE i \in ps : \A j \in ps : j <= i
  IN SubSeq(s, last + 1, Len(s))

\* path.split('/').pop() || ''
FileNameOf(path) == SplitPop(path, "/")

\* the value JavaScript calls undefined (an absent type or language)
Undefined == "<undefined>"

\* the only member of a one-element set; The({e(x) : x \in {v}}) computes
\* e with v evaluated once
The(S) == CHOOSE x \in S : TRUE

UpperToLower ==
  [A |-> "a", B |-> "b", C |-> "c", D |-> "d", E |-> "e", F |-> "f", G |-> "g",
   H |-> "h", I |-> "i", J |-> "j", K |-> "k", L |-> "l", M |-> "m", N |-> "n",
   O |-> "o", P |-> "p", Q |-> "q", R |-> "r", S |-> "s", T |-> "t", U |-> "u",
   V |-> "v", W |-> "w", X |-> "x", Y |-> "y", Z |-> "z"]

LowerChar(c) == IF c \in DOMAIN UpperToLower THEN UpperToLower[c] ELSE c

\* String.prototype.toLowerCase (ASCII letters)
RECURSIVE ToLowerCase(_)
ToLowerCase(s) ==
  IF s = "" THEN "" ELSE LowerChar(CharAt(s, 1)) \o ToLowerCase(SubSeq(s, 2, Len(s)))

(***************************************************************************)
(* DefaultFileUtils (utils/file-utils.ts)                                  *)
(***************************************************************************)

packageFilePatterns ==
  {"package.json", "requirements.txt", "pom.xml", "build.gradle",
   "Cargo.toml", "go.mod", "composer.json", "Gemfile"}

\* configFilePatterns.some(pattern => pattern.test(fileName)): the fifteen
\* regular expressions, each written as the string test it performs
MatchesConfigFilePatterns(fileName) ==
  \/ EndsWith(fileName, ".config.js")
  \/ EndsWith(fileName, ".config.ts")
  \/ EndsWith(fileName, ".config.json")
  \/ Includes(fileName, "webpack.config.")
  \/ Includes(fileName, "vite.config.")
  \/ Includes(fileName, "rollup.config.")
  \/ Includes(fileName, "babel.config.")
  \/ Includes(fileName, "jest.config.")
  \/ Includes(fileName, "vitest.config.")
  \/ EndsWith(fileName, "tsconfig.json")
  \/ Includes(fileName, ".eslintrc.")
  \/ Includes(fileName, ".prettierrc")
  \/ Includes(fileName, "docker-compose.")
  \/ Includes(fileName, "Dockerfile")
  \/ Includes(fileName, ".env")
  \/ EndsWith(fileName, ".yml")
  \/ EndsWith(fileName, ".yaml")

entryPointPatterns ==
  {"index.js", "index.ts", "main.js", "main.ts", "app.js", "app.ts",
   "server.js", "server.ts", "main.py", "app.py", "__main__.py",
   "Main.java", "Program.cs", "main.go"}

\* fileName.match(/\.(e1|e2|...)$/) for a set of extensions
EndsWithDotExt(fileName, exts) == \E e \in exts : EndsWith(fileName, "." \o e)

FileTypeOf(path, fileName) ==
  IF ListIncludes(packageFilePatterns, fileName) THEN "package"
  ELSE IF MatchesConfigFilePatterns(fileName) THEN "config"
  ELSE IF ListIncludes(entryPointPatterns, fileName) THEN "source"
  ELSE IF \/ Includes(fileName, ".test.")
          \/ Includes(fileName, ".spec.")
          \/ Includes(path, "/test/")
          \/ Includes(path, "/__tests__/") THEN "test"
  ELSE IF \/ EndsWith(fileName, ".md")
          \/ EndsWith(fileName, ".txt")
          \/ EndsWith(fileName, ".rst") THEN "documentation"
  ELSE IF EndsWithDotExt(fileName, {"png", "jpg", "jpeg", "gif", "svg", "ico",
                                    "woff", "woff2", "ttf", "eot"}) THEN "asset"
  ELSE IF EndsWithDotExt(fileName, {"js", "ts", "py", "java", "go", "rs", "cs",
                                    "php", "rb", "cpp", "c", "h"}) THEN "source"
  ELSE IF EndsWithDotExt(fileName, {"json", "xml", "yml", "yaml", "toml", "ini"})
       THEN "config"
  ELSE "source"

getFileType(path) == The({FileTypeOf(path, fileName) : fileName \in {FileNameOf(path)}})

\* category bands that exclude their lower bounds
UtilsCategoryExclusive(score) ==
  IF score > 80 THEN "critical"
  ELSE IF score > 50 THEN "important"
  ELSE IF score > 20 THEN "normal"
  ELSE "ignore"

\* the category bands of the file-utility scorer
UtilsCategory(score) ==
  IF score >= 80 THEN "critical"
  ELSE IF score >= 50 THEN "important"
  ELSE IF score >= 20 THEN "normal"
  ELSE "ignore"

\* Math.max on two numbers
MathMax(a, b) == IF a >= b THEN a ELSE b

\* Math.min on two numbers
MathMin(a, b) == IF a <= b THEN a ELSE b

\* a test-file reduction without the floor of 10
TestReductionNoFloor(score) == score - 20

\* the test-file reduction: score = Math.max(score - 20, 10)
TestReduction(score) == MathMax(score - 20, 10)

ScoreOf(fileName, type) ==
  LET isPkg == ListIncludes(packageFilePatterns, fileName)
      isEntry == ListIncludes(entryPointPatterns, fileName)
      isCfg == MatchesConfigFilePatterns(fileName)
      isInfra == \/ Includes(fileName, "Dockerfile")
                 \/ Includes(fileName, "docker-compose")
                 \/ Includes(fileName, ".github")
                 \/ Includes(fileName, ".gitlab-ci")
      isSchema == \/ Includes(fileName, "schema")
                  \/ Includes(fileName, "openapi")
                  \/ Includes(fileName, "swagger")
      isSource == type = "source"
      isTest == type = "test"
      s1 == IF isPkg THEN 100 ELSE 0
      s2 == s1 + (IF isEntry THEN 80 ELSE 0)
      s3 == s2 + (IF isCfg THEN 60 ELSE 0)
      s4 == s3 + (IF isInfra THEN 70 ELSE 0)
      s5 == s4 + (IF isSchema THEN 50 ELSE 0)
      s6 == s5 + (IF isSource THEN 30 ELSE 0)
      score == IF isTest THEN TestReduction(s6) ELSE s6
      reasons == (IF isPkg THEN <<"Package/dependency file">> ELSE <<>>)
              \o (IF isEntry THEN <<"Application entry point">> ELSE <<>>)
              \o (IF isCfg THEN <<"Configuration file">> ELSE <<>>)
              \o (IF isInfra THEN <<"Infrastructure configuration">> ELSE <<>>)
              \o (IF isSchema THEN <<"API schema definition">> ELSE <<>>)
              \o (IF isSource THEN <<"Source code file">> ELSE <<>>)
              \o (IF isTest THEN <<"Test file (lower priority)">> ELSE <<>>)
  IN [score |-> score, reasons |-> reasons, category |-> UtilsCategory(score)]

\* this.getFileType(path) is asked twice for the same path; it is a pure
\* function, computed once here
calculateImportanceScore(path) ==
  The({ScoreOf(fileName, type) : fileName \in {FileNameOf(path)},
                                 type \in {getFileType(path)}})

\* ignore rules that lack the node_modules/ entry
shouldIgnoreFileNoNodeModules(path) ==
  \/ \E pattern \in {".git/", "dist/", "build/", "target/",
                     ".next/", ".nuxt/", "coverage/", ".nyc_output/",
                     "__pycache__/"} : Includes(path, pattern)
  \/ EndsWith(path, ".pyc")
  \/ Includes(path, ".DS_Store")
  \/ Includes(path, "Thumbs.db")

\* ignorePaths.some(...): directory patterns and plain names by includes, the
\* one '*' pattern by endsWith of its tail
shouldIgnoreFile(path) ==
  \/ \E pattern \in {"node_modules/", ".git/", "dist/", "build/", "target/",
                     ".next/", ".nuxt/", "coverage/", ".nyc_output/",
                     "__pycache__/"} : Includes(path, pattern)
  \/ EndsWith(path, ".pyc")
  \/ Includes(path, ".DS_Store")
  \/ Includes(path, "Thumbs.db")

languageMap ==
  [js |-> "javascript", ts |-> "typescript", py |-> "python", java |-> "java",
   go |-> "go", rs |-> "rust", cs |-> "csharp", php |-> "php", rb |-> "ruby",
   cpp |-> "cpp", c |-> "c", h |-> "c", hpp |-> "cpp", kt |-> "kotlin",
   scala |-> "scala", clj |-> "clojure", hs |-> "haskell", elm |-> "elm",
   dart |-> "dart", swift |-> "swift"]

getLanguageFromPath(path) ==
  The({IF extension # "" /\ extension \in DOMAIN languageMap
       THEN languageMap[extension] ELSE Undefined
       : extension \in {ToLowerCase(SplitPop(path, "."))}})

\* path.replace(/\\/g, '/').replace(/\/+/g, '/')
RECURSIVE normalizePath(_)
normalizePath(path) ==
  IF path = "" THEN ""
  ELSE LET c == IF CharAt(path, 1) = "\\" THEN "/" ELSE CharAt(path, 1)
           rest == normalizePath(SubSeq(path, 2, Len(path)))
       IN IF c = "/" /\ StartsWith(rest, "/") THEN rest ELSE c \o rest

(***************************************************************************)
(* Error factory (utils/error-handler.ts)                                  *)
(***************************************************************************)

FILE_INDEXING_FAILED == "FILE_INDEXING_FAILED"

\* new InfrastructureError(code, message, category, recoverable, ...)
InfrastructureError(code, message, category, recoverable) ==
  [name |-> "InfrastructureError", code |-> code, message |-> message,
   category |-> category, recoverable |-> recoverable]

\* the default of createAnalysisError's recoverable parameter
AnalysisRecoverableDefault == FALSE

\* ErrorFactory.createAnalysisError(code, message, recoverable = false, ...)
createAnalysisError(code, message, recoverable) ==
  InfrastructureError(code, message, "analysis", recoverable)

\* an error raised by the runtime or by a collaborator: a plain Error, with
\* no code, category or recoverable field
PlainError(name, message) ==
  [name |-> name, code |-> Undefined, message |-> message,
   category |-> Undefined, recoverable |-> FALSE]

\* no error was thrown
NoError == PlainError("", "")

(***************************************************************************)
(* Bounds and input pools                                                  *)
(***************************************************************************)

\* longest input list
MaxInputLen == 3

\* largest configured maxFiles
MaxMaxFiles == 3

\* a file entry of the caller's input
File(path, size, type) == [path |-> path, size |-> size, type |-> type]

\* the entries input lists are built from: package, entry point (with
\* backslashes), plain source (oversized under the small limit, repeated
\* slashes), test, dependency directory (oversized), empty path, negative
\* size, documentation with a declared type
FilePool ==
  { File("package.json", 1, "package"),
    File("src\\index.ts", 1, Undefined),
    File("src//utils.ts", 2, Undefined),
    File("src/a.test.ts", 1, Undefined),
    File("node_modules/x/index.js", 2, Undefined),
    File("", 1, "source"),
    File("lib.ts", -1, Undefined),
    File("README.md", 1, "documentation") }

\* longest file name composed from fragments
MaxFragments == 3

\* pieces of file names that the scoring rules look for, alone or combined
NameFragments ==
  {"Dockerfile", "docker-compose", ".schema", "swagger", ".test.", ".yml",
   "index.ts", "package.json", ".gitlab-ci", "x/"}

RECURSIVE ConcatAll(_)
ConcatAll(parts) == IF parts = <<>> THEN "" ELSE Head(parts) \o ConcatAll(Tail(parts))

RECURSIVE SeqsUpTo(_, _)
SeqsUpTo(S, n) ==
  IF n = 0 THEN {<<>>}
  ELSE LET shorter == SeqsUpTo(S, n - 1)
       IN shorter \cup {Append(q, x) : q \in {r \in shorter : Len(r) = n - 1}, x \in S}

\* the default options of the FileIndexer constructor
DefaultMaxFiles == 10000

DefaultMaxFileSize == 10 * 1024 * 1024

NoTypeRules == [p \in {} |-> Undefined]

Options(maxFiles, maxFileSize, ignorePatterns, typeRules) ==
  [maxFiles |-> maxFiles, maxFileSize |-> maxFileSize,
   customIgnorePatterns |-> ignorePatterns, customFileTypeRules |-> typeRules]

\* configurations: the defaults, every small maxFiles, a maxFileSize of one
\* byte (the pool's sizes are 1 and 2), custom ignore patterns (substring and
\* glob), custom type rules
OptionsPool ==
  {Options(DefaultMaxFiles, DefaultMaxFileSize, <<>>, NoTypeRules)}
  \cup {Options(m, DefaultMaxFileSize, <<>>, NoTypeRules) : m \in 0..MaxMaxFiles}
  \cup {Options(m, 1, <<>>, NoTypeRules) : m \in {2, DefaultMaxFiles}}
  \cup {Options(DefaultMaxFiles, 1, <<"a.test", "src/ind*">>, NoTypeRules)}
  \cup {Options(DefaultMaxFiles, DefaultMaxFileSize, <<>>,
                [p \in {"README.md", "src/utils.ts", "src\\index.ts"} |-> "config"])}

\* the collaborator calls the indexer makes
FileUtilsOps ==
  {"normalizePath", "shouldIgnoreFile", "getFileType",
   "calculateImportanceScore", "getLanguageFromPath"}

\* an injected FileUtils: a DefaultFileUtils whose method op is replaced by
\* one that throws for the argument path and delegates otherwise
Fault(op, path) == [op |-> op, path |-> path]

NoFault == Fault("none", "")

FaultPool ==
  {Fault(op, "src/index.ts") : op \in FileUtilsOps}
  \cup {Fault("normalizePath", "src\\index.ts")}

\* the configurations the faulty collaborators are combined with
FaultOptionsPool ==
  {Options(m, s, <<>>, NoTypeRules) :
     m \in {2, DefaultMaxFiles}, s \in {1, DefaultMaxFileSize}}

SimulatedMessage == "Simulated processing error"

(***************************************************************************)
(* FileIndexer (analyzers/file-indexer.ts)                                 *)
(***************************************************************************)

VARIABLES
  options,        \* this.options of the indexer
  fault,          \* the injected FileUtils (NoFault: a DefaultFileUtils)
  codebaseInput,  \* the caller's input object; its file entries are mutated
  given,          \* history: the file list as the caller passed it
  pc,             \* position in indexCodebase: idle, loop, sort, done, rejected
  filteredFiles,  \* references (positions in codebaseInput.files) kept by filterFiles
  k,              \* the loop's position in filteredFiles
  fileIndex,      \* the working list, then the returned index.fileIndex
  totalSize,
  filesIgnored,
  errors,
  warnings,
  result,         \* the resolved value's statistics and derived maps
  thrown          \* the error the returned promise rejects with

indexerVars == <<options, fault, codebaseInput, given, pc, filteredFiles, k,
                 fileIndex, totalSize, filesIgnored, errors, warnings, result, thrown>>

VARIABLES
  classifierOptions,  \* this.options of a FilePriorityClassifier
  ruleLastIndexes,        \* lastIndex of the RegExp of each custom scoring rule
  classifyArgs,       \* the (path, content, type) the classifier is called with
  classifications     \* what the successive classifyFile calls returned

classifierVars == <<classifierOptions, ruleLastIndexes, classifyArgs, classifications>>

VARIABLES
  topFiles,   \* the array passed to the classifier's getTopPriorityFiles
  topGiven,   \* history: that array as the caller built it
  topLimit,   \* the limit passed with it
  topResult   \* what the call returned (NoTop before the call)

topVars == <<topFiles, topGiven, topLimit, topResult>>

VARIABLES
  parserOptions,  \* this.options of an ASTParser
  astCache,       \* this.astCache of the parser: cache key -> parsing result
  parseCalls      \* history: the parseFile calls made, with what they returned

parserVars == <<parserOptions, astCache, parseCalls>>

VARIABLES
  managerAstCache,  \* this.astCache of an InMemoryCacheManager: path -> entry
  stats,            \* this.stats of the manager
  cacheCalls        \* history: the calls made on the manager, with their results

managerVars == <<managerAstCache, stats, cacheCalls>>

helperVars == <<topVars, parserVars, managerVars>>

vars == <<indexerVars, classifierVars, helperVars>>

\* does the injected collaborator throw when op is called with arg
Raises(f, op, arg) == f.op = op /\ f.path = arg

\* calculateImportanceScore calls this.getFileType(path) twice, so a replaced
\* getFileType that throws for path makes the scorer throw as well
ScorerRaises(f, path) ==
  Raises(f, "calculateImportanceScore", path) \/ Raises(f, "getFileType", path)

\* a validation that forgets the path check
IsValidFileNoPathCheck(file) == ~(file.size < 0)

\* a validation that forgets the size check
IsValidFileNoSizeCheck(file) == file.path # ""

\* the basic validation of filterFiles: '' is falsy, a negative size is dropped
IsValidFile(file) == file.path # "" /\ ~(file.size < 0)

\* filterFiles walks the list in order; the first valid entry whose
\* normalizePath call throws ends the walk (0: no call throws)
FirstFilterRaise(f, files) ==
  LET bad == {i \in 1..Len(files) :
                IsValidFile(files[i]) /\ Raises(f, "normalizePath", files[i].path)}
  IN IF bad = {} THEN 0 ELSE CHOOSE i \in bad : \A j \in bad : i <= j

\* file.path = this.fileUtils.normalizePath(file.path), for the entries
\* filterFiles reached before it returned or threw
FilesAfterFilter(f, files) ==
  LET stop == FirstFilterRaise(f, files) IN
  [i \in 1..Len(files) |->
     IF IsValidFile(files[i]) /\ (stop = 0 \/ i < stop)
     THEN [files[i] EXCEPT !.path = normalizePath(files[i].path)]
     ELSE files[i]]

RECURSIVE KeptRefs(_, _)
KeptRefs(files, i) ==
  IF i > Len(files) THEN <<>>
  ELSE (IF IsValidFile(files[i]) THEN <<i>> ELSE <<>>) \o KeptRefs(files, i + 1)

\* the references files.filter(...) returns
filterFiles(files) == KeptRefs(files, 1)

\* a one-character regular expression atom against a character
AtomMatches(a, c) == a = "." \/ a = c

\* does the regular expression re (literal characters, '.', and x*) match a
\* prefix of s
RECURSIVE MatchHere(_, _)
MatchHere(re, s) ==
  IF re = "" THEN TRUE
  ELSE IF Len(re) >= 2 /\ CharAt(re, 2) = "*"
  THEN \E n \in 0..Len(s) :
         /\ \A i \in 1..n : AtomMatches(CharAt(re, 1), CharAt(s, i))
         /\ MatchHere(SubSeq(re, 3, Len(re)), SubSeq(s, n + 1, Len(s)))
  ELSE /\ s # ""
       /\ AtomMatches(CharAt(re, 1), CharAt(s, 1))
       /\ MatchHere(SubSeq(re, 2, Len(re)), SubSeq(s, 2, Len(s)))

\* RegExp.prototype.test of an unanchored expression
RegexTest(re, s) == \E i \in 1..(Len(s) + 1) : MatchHere(re, SubSeq(s, i, Len(s)))

\* pattern.replace(/\*/g, '.*')
RECURSIVE GlobToRegex(_)
GlobToRegex(pattern) ==
  IF pattern = "" THEN ""
  ELSE (IF CharAt(pattern, 1) = "*" THEN ".*" ELSE CharAt(pattern, 1))
       \o GlobToRegex(SubSeq(pattern, 2, Len(pattern)))

MatchesCustomIgnore(opts, path) ==
  \E i \in 1..Len(opts.customIgnorePatterns) :
    LET pattern == opts.customIgnorePatterns[i] IN
    IF Includes(pattern, "*")
    THEN RegexTest(GlobToRegex(pattern), path)
    ELSE Includes(path, pattern)

\* FileIndexer.shouldIgnoreFile: default rules, then the custom patterns
IndexerShouldIgnore(opts, path) ==
  shouldIgnoreFile(path) \/ MatchesCustomIgnore(opts, path)

\* a size check that also rejects a file of exactly the limit
ExceedsOrEqualsMaxSize(opts, file) == file.size >= opts.maxFileSize

\* is the size over the configured limit
ExceedsMaxSize(opts, file) == file.size > opts.maxFileSize

\* has the working list reached the configured cap
ReachedMaxFiles(opts, index) == Len(index) >= opts.maxFiles

\* customFileTypeRules is a plain object ({} by default): besides its own
\* keys, a lookup finds the members it inherits from Object.prototype
ObjectPrototypeKeys ==
  {"constructor", "toString", "toLocaleString", "valueOf", "hasOwnProperty",
   "isPrototypeOf", "propertyIsEnumerable", "__proto__"}

\* what such a lookup yields: a function or an object, never a FileType
InheritedMember == "<Object.prototype member>"

\* this.options.customFileTypeRules[key]
RuleLookup(rules, key) ==
  IF key \in DOMAIN rules THEN rules[key]
  ELSE IF key \in ObjectPrototypeKeys THEN InheritedMember
  ELSE Undefined

\* the type of an index entry: custom rule, else declared type, else detection
ResolveFileType(opts, file, normalizedPath) ==
  IF RuleLookup(opts.customFileTypeRules, normalizedPath) # Undefined
  THEN RuleLookup(opts.customFileTypeRules, normalizedPath)
  ELSE IF file.type # Undefined THEN file.type
  ELSE getFileType(normalizedPath)

\* does createFileIndexEntry throw for this file under the injected FileUtils
CreateEntryRaises(f, opts, file) ==
  \E normalizedPath \in {normalizePath(file.path)} :
  \/ Raises(f, "normalizePath", file.path)
  \/ /\ RuleLookup(opts.customFileTypeRules, normalizedPath) = Undefined
     /\ file.type = Undefined
     /\ Raises(f, "getFileType", normalizedPath)
  \/ ScorerRaises(f, normalizedPath)
  \/ Raises(f, "getLanguageFromPath", normalizedPath)

\* createFileIndexEntry; ref is the entry's position in the caller's list,
\* kept to tell apart entries with equal paths
createFileIndexEntry(opts, file, ref) ==
  The({[path |-> normalizedPath,
        type |-> ResolveFileType(opts, file, normalizedPath),
        size |-> file.size,
        importance |-> calculateImportanceScore(normalizedPath),
        language |-> getLanguageFromPath(normalizedPath),
        ref |-> ref] : normalizedPath \in {normalizePath(file.path)}})

SizeWarning(file) ==
  "File " \o file.path \o " exceeds maximum size limit (" \o ToString(file.size)
  \o " bytes)"

MaxFilesWarning(opts) ==
  "Reached maximum file limit (" \o ToString(opts.maxFiles) \o "), stopping indexing"

ProcessingError(file, message) ==
  "Error processing file " \o file.path \o ": " \o message

\* an insertion that goes before entries of equal score (not stable)
UnstableInsertPos(sorted, e) ==
  LET notLarger == {i \in 1..Len(sorted) : sorted[i].importance.score <= e.importance.score}
  IN IF notLarger = {} THEN Len(sorted) + 1
     ELSE CHOOSE i \in notLarger : \A j \in notLarger : i <= j

\* where a stable insertion puts an entry: before the first entry with a
\* strictly smaller score
StableInsertPos(sorted, e) ==
  LET smaller == {i \in 1..Len(sorted) : sorted[i].importance.score < e.importance.score}
  IN IF smaller = {} THEN Len(sorted) + 1 ELSE CHOOSE i \in smaller : \A j \in smaller : i <= j

InsertAt(sorted, pos, e) ==
  SubSeq(sorted, 1, pos - 1) \o <<e>> \o SubSeq(sorted, pos, Len(sorted))

\* fileIndex.sort((a, b) => b.importance.score - a.importance.score):
\* Array.prototype.sort is stable, computed here as an insertion sort
RECURSIVE SortFrom(_, _, _)
SortFrom(list, i, sorted) ==
  IF i > Len(list) THEN sorted
  ELSE SortFrom(list, i + 1, InsertAt(sorted, StableInsertPos(sorted, list[i]), list[i]))

SortByScoreDescending(list) == SortFrom(list, 1, <<>>)

\* the indexer's own category predicates (independent of DefaultFileUtils)
isPackageFile(fileName) ==
  fileName \in {"package.json", "requirements.txt", "pom.xml", "build.gradle",
                "Cargo.toml", "go.mod", "composer.json", "Gemfile", "setup.py",
                "pyproject.toml", "Package.swift", "pubspec.yaml"}

isConfigFile(fileName) ==
  \/ EndsWith(fileName, ".config.js")
  \/ EndsWith(fileName, ".config.ts")
  \/ EndsWith(fileName, ".config.json")
  \/ Includes(fileName, "webpack.config.")
  \/ Includes(fileName, "vite.config.")
  \/ Includes(fileName, "rollup.config.")
  \/ Includes(fileName, "babel.config.")
  \/ Includes(fileName, "jest.config.")
  \/ Includes(fileName, "vitest.config.")
  \/ EndsWith(fileName, "tsconfig.json")
  \/ Includes(fileName, ".eslintrc.")
  \/ Includes(fileName, ".prettierrc")
  \/ Includes(fileName, ".env")
  \/ EndsWith(fileName, ".yml")
  \/ EndsWith(fileName, ".yaml")
  \/ EndsWith(fileName, ".toml")
  \/ EndsWith(fileName, ".ini")

isEntryPointFile(fileName) ==
  fileName \in {"index.js", "index.ts", "main.js", "main.ts", "app.js", "app.ts",
                "server.js", "server.ts", "main.py", "app.py", "__main__.py",
                "Main.java", "Program.cs", "main.go", "lib.rs", "main.rs"}

isSchemaFile(fileName, path) ==
  \/ Includes(fileName, "schema")
  \/ Includes(fileName, "openapi")
  \/ Includes(fileName, "swagger")
  \/ Includes(path, "/schema/")
  \/ EndsWith(fileName, ".graphql")
  \/ EndsWith(fileName, ".proto")

isDockerFile(fileName, path) ==
  \/ Includes(fileName, "Dockerfile")
  \/ Includes(fileName, "docker-compose")
  \/ fileName = ".dockerignore"
  \/ Includes(path, "docker/")

isCICDFile(fileName, path) ==
  \/ Includes(path, ".github/")
  \/ Includes(fileName, ".gitlab-ci")
  \/ Includes(fileName, "jenkins")
  \/ Includes(fileName, "Jenkinsfile")
  \/ Includes(fileName, "azure-pipelines")
  \/ Includes(fileName, "buildspec")
  \/ Includes(fileName, "cloudbuild")

\* the paths, in index order, of the entries a predicate selects
PathsWhere(index, Pred(_)) ==
  LET selected == SelectSeq(index, Pred)
  IN [i \in 1..Len(selected) |-> selected[i].path]
LowerAll(paths) == [i \in 1..Len(paths) |-> ToLowerCase(paths[i])]

\* a priority map that records the lower-cased paths it matched on
createPriorityFileMapLowerCased(index) ==
  LET pkg(e) == e.type = "package"
                \/ \E fileName \in {FileNameOf(e.path)} : isPackageFile(fileName)
      cfg(e) == e.type = "config"
                \/ \E fileName \in {FileNameOf(e.path)} : isConfigFile(fileName)
      entry(e) == \E fileName \in {FileNameOf(e.path)} : isEntryPointFile(fileName)
      schema(e) == \E fileName \in {FileNameOf(e.path)}, path \in {ToLowerCase(e.path)} :
                     isSchemaFile(fileName, path)
      docker(e) == \E fileName \in {FileNameOf(e.path)}, path \in {ToLowerCase(e.path)} :
                     isDockerFile(fileName, path)
      cicd(e) == \E fileName \in {FileNameOf(e.path)}, path \in {ToLowerCase(e.path)} :
                   isCICDFile(fileName, path)
  IN [packageFiles |-> LowerAll(PathsWhere(index, pkg)),
      configFiles |-> LowerAll(PathsWhere(index, cfg)),
      entryPoints |-> LowerAll(PathsWhere(index, entry)),
      schemas |-> LowerAll(PathsWhere(index, schema)),
      dockerFiles |-> LowerAll(PathsWhere(index, docker)),
      cicdFiles |-> LowerAll(PathsWhere(index, cicd))]

createPriorityFileMap(index) ==
  LET pkg(e) == e.type = "package"
                \/ \E fileName \in {FileNameOf(e.path)} : isPackageFile(fileName)
      cfg(e) == e.type = "config"
                \/ \E fileName \in {FileNameOf(e.path)} : isConfigFile(fileName)
      entry(e) == \E fileName \in {FileNameOf(e.path)} : isEntryPointFile(fileName)
      schema(e) == \E fileName \in {FileNameOf(e.path)}, path \in {ToLowerCase(e.path)} :
                     isSchemaFile(fileName, path)
      docker(e) == \E fileName \in {FileNameOf(e.path)}, path \in {ToLowerCase(e.path)} :
                     isDockerFile(fileName, path)
      cicd(e) == \E fileName \in {FileNameOf(e.path)}, path \in {ToLowerCase(e.path)} :
                   isCICDFile(fileName, path)
  IN [packageFiles |-> PathsWhere(index, pkg),
      configFiles |-> PathsWhere(index, cfg),
      entryPoints |-> PathsWhere(index, entry),
      schemas |-> PathsWhere(index, schema),
      dockerFiles |-> PathsWhere(index, docker),
      cicdFiles |-> PathsWhere(index, cicd)]

FileTypes ==
  {"package", "config", "source", "test", "documentation", "asset", "build", "schema"}

RECURSIVE SumSizes(_)
SumSizes(index) ==
  IF index = <<>> THEN 0 ELSE Head(index).size + SumSizes(Tail(index))

RECURSIVE SumScores(_)
SumScores(index) ==
  IF index = <<>> THEN 0 ELSE Head(index).importance.score + SumScores(Tail(index))

\* Math.round of a tenth of a non-negative integer total (the scores of the
\* default scorer are whole numbers)
RoundTenth(total) == (total + 5) \div 10

calculateStatistics(index) ==
  LET languages == {index[i].language : i \in 1..Len(index)} \ {Undefined}
      types == FileTypes \cup {index[i].type : i \in 1..Len(index)}
  IN [totalFiles |-> Len(index),
      totalSize |-> SumSizes(index),
      languageDistribution |->
        [l \in languages |-> Cardinality({i \in 1..Len(index) : index[i].language = l})],
      fileTypeDistribution |->
        [t \in types |-> Cardinality({i \in 1..Len(index) : index[i].type = t})],
      complexityScore |-> RoundTenth(SumScores(index))]

\* a catch block that replaces the original message by a generic one
WrapWithoutMessage(error) ==
  createAnalysisError(FILE_INDEXING_FAILED, "File indexing failed", FALSE)

\* the catch block of indexCodebase: whatever was thrown is wrapped into a
\* non-recoverable analysis error that keeps the original message
WrapIndexingFailure(error) ==
  createAnalysisError(FILE_INDEXING_FAILED,
                      "File indexing failed: " \o error.message, FALSE)

\* the error thrown by the input validation
NoFilesError ==
  createAnalysisError(FILE_INDEXING_FAILED, "No files provided for indexing",
                      AnalysisRecoverableDefault)

\* the catch block reads codebaseInput.files.length; without a file list that
\* read throws a TypeError out of the catch block
AbsentFilesError ==
  PlainError("TypeError", "Cannot read properties of undefined (reading 'length')")

\* the loop's working state
LoopState(index, size, ignored, errs, warns, stop) ==
  [fileIndex |-> index, totalSize |-> size, filesIgnored |-> ignored,
   errors |-> errs, warnings |-> warns, break |-> stop]

\* the catch of the loop body: the error is recorded, the loop goes on
RecordError(file, st) ==
  [st EXCEPT !.errors = Append(@, ProcessingError(file, SimulatedMessage))]

\* filesIgnored++; continue
IgnoreFile(st) == [st EXCEPT !.filesIgnored = @ + 1]

\* fileIndex.push(indexEntry); totalSize += file.size; the maxFiles check
IndexFile(opts, file, ref, st) ==
  The({[st EXCEPT !.fileIndex = index,
                  !.totalSize = @ + file.size,
                  !.warnings = IF ReachedMaxFiles(opts, index)
                               THEN Append(@, MaxFilesWarning(opts)) ELSE @,
                  !.break = ReachedMaxFiles(opts, index)]
       : index \in {Append(st.fileIndex, createFileIndexEntry(opts, file, ref))}})

\* a size branch without its continue: the file is counted as ignored and
\* indexed as well
SkipOversizedNoContinue(opts, file, ref, st) ==
  IndexFile(opts, file, ref,
            [st EXCEPT !.warnings = Append(@, SizeWarning(file)),
                       !.filesIgnored = @ + 1])

\* the size branch: warning, filesIgnored++, continue
SkipOversized(opts, file, ref, st) ==
  [st EXCEPT !.warnings = Append(@, SizeWarning(file)),
             !.filesIgnored = @ + 1]

\* one iteration of the for loop over filteredFiles, try/catch included
LoopBody(opts, f, file, ref, st) ==
  IF Raises(f, "shouldIgnoreFile", file.path) THEN RecordError(file, st)
  ELSE IF IndexerShouldIgnore(opts, file.path) THEN IgnoreFile(st)
  ELSE IF ExceedsMaxSize(opts, file) THEN SkipOversized(opts, file, ref, st)
  ELSE IF CreateEntryRaises(f, opts, file) THEN RecordError(file, st)
  ELSE IndexFile(opts, file, ref, st)

\* the warning pushed when the validity filter leaves nothing
FilterWarnings(kept) ==
  IF Len(kept) = 0 THEN <<"No files remaining after filtering">> ELSE <<>>

NoResult ==
  [totalFilesScanned |-> 0, filesIndexed |-> 0, filesIgnored |-> 0,
   totalSizeBytes |-> 0, errors |-> <<>>, warnings |-> <<>>,
   priorityFiles |-> createPriorityFileMap(<<>>),
   statistics |-> calculateStatistics(<<>>)]

Inputs ==
  {[hasFiles |-> TRUE, files |-> fs] : fs \in SeqsUpTo(FilePool, MaxInputLen)}
  \cup {[hasFiles |-> FALSE, files |-> <<>>]}

\* one-file inputs whose path is composed from the name fragments
NameInputs ==
  {[hasFiles |-> TRUE, files |-> <<File(ConcatAll(parts), 1, Undefined)>>] :
     parts \in SeqsUpTo(NameFragments, MaxFragments) \ {<<>>}}

\* longest input of the lists that vary the declared type
MaxTypedLen == 2

\* files with and without a declared type; one is named like a member
\* that every object inherits
TypedFilePool ==
  { File("constructor", 1, "source"),
    File("README.md", 1, "documentation"),
    File("README.md", 1, Undefined),
    File("src//utils.ts", 1, "test"),
    File("src\\index.ts", 1, Undefined) }

TypedInputs ==
  {[hasFiles |-> TRUE, files |-> fs] : fs \in SeqsUpTo(TypedFilePool, MaxTypedLen) \ {<<>>}}

\* the configurations the typed inputs are indexed under
TypedOptionsPool ==
  {Options(DefaultMaxFiles, DefaultMaxFileSize, <<>>, NoTypeRules),
   Options(DefaultMaxFiles, DefaultMaxFileSize, <<>>,
           [p \in {"README.md", "src/utils.ts", "src\\index.ts"} |-> "config"])}

\* the files a faulty collaborator is run over: the two spellings its fault
\* is keyed on, files before and after them, an ignored and an invalid one
FaultFilePool ==
  { File("package.json", 1, "package"),
    File("src\\index.ts", 1, Undefined),
    File("src//utils.ts", 2, Undefined),
    File("node_modules/x/index.js", 2, Undefined),
    File("lib.ts", -1, Undefined) }

FaultInputs ==
  {[hasFiles |-> TRUE, files |-> fs] : fs \in SeqsUpTo(FaultFilePool, MaxInputLen)}

IndexerInit ==
  /\ \/ options \in OptionsPool /\ fault = NoFault /\ codebaseInput \in Inputs
     \/ options \in TypedOptionsPool /\ fault = NoFault /\ codebaseInput \in TypedInputs
     \/ options \in FaultOptionsPool /\ fault \in FaultPool /\ codebaseInput \in FaultInputs
     \/ /\ options = Options(DefaultMaxFiles, DefaultMaxFileSize, <<>>, NoTypeRules)
        /\ fault = NoFault
        /\ codebaseInput \in NameInputs
  /\ given = codebaseInput.files
  /\ pc = "idle"
  /\ filteredFiles = <<>>
  /\ k = 1
  /\ fileIndex = <<>>
  /\ totalSize = 0
  /\ filesIgnored = 0
  /\ errors = <<>>
  /\ warnings = <<>>
  /\ result = NoResult
  /\ thrown = NoError

\* indexCodebase from its entry to the loop: input validation and filterFiles
Validate ==
  /\ pc = "idle"
  /\ UNCHANGED <<options, fault, given, k, fileIndex, totalSize, filesIgnored,
                 errors, result>>
  /\ UNCHANGED <<classifierVars, helperVars>>
  /\ IF ~codebaseInput.hasFiles
     THEN /\ pc' = "rejected"
          /\ thrown' = AbsentFilesError
          /\ UNCHANGED <<codebaseInput, filteredFiles, warnings>>
     ELSE IF Len(codebaseInput.files) = 0
     THEN /\ pc' = "rejected"
          /\ thrown' = WrapIndexingFailure(NoFilesError)
          /\ UNCHANGED <<codebaseInput, filteredFiles, warnings>>
     ELSE IF FirstFilterRaise(fault, codebaseInput.files) # 0
     THEN /\ pc' = "rejected"
          /\ thrown' = WrapIndexingFailure(PlainError("Error", SimulatedMessage))
          /\ codebaseInput' =
               [codebaseInput EXCEPT !.files = FilesAfterFilter(fault, @)]
          /\ UNCHANGED <<filteredFiles, warnings>>
     ELSE \E kept \in {filterFiles(codebaseInput.files)} :
          /\ codebaseInput' =
               [codebaseInput EXCEPT !.files = FilesAfterFilter(fault, @)]
          /\ filteredFiles' = kept
          /\ warnings' = FilterWarnings(kept)
          /\ pc' = IF kept = <<>> THEN "sort" ELSE "loop"
          /\ thrown' = thrown

\* one iteration of the loop; the loop ends at the break or after the last
\* filtered file
ProcessFile ==
  /\ pc = "loop"
  /\ k <= Len(filteredFiles)
  /\ \E st \in {LoopBody(options, fault, codebaseInput.files[filteredFiles[k]],
                           filteredFiles[k],
                           LoopState(fileIndex, totalSize, filesIgnored, errors,
                                     warnings, FALSE))} :
        /\ fileIndex' = st.fileIndex
        /\ totalSize' = st.totalSize
        /\ filesIgnored' = st.filesIgnored
        /\ errors' = st.errors
        /\ warnings' = st.warnings
        /\ k' = k + 1
        /\ pc' = IF st.break \/ k = Len(filteredFiles) THEN "sort" ELSE "loop"
  /\ UNCHANGED <<options, fault, codebaseInput, given, filteredFiles, result, thrown>>
  /\ UNCHANGED <<classifierVars, helperVars>>

\* after the loop: sort, priority file map, statistics, and the return
Finish ==
  /\ pc = "sort"
  /\ \E sorted \in {SortByScoreDescending(fileIndex)} :
        /\ fileIndex' = sorted
        /\ result' = [totalFilesScanned |-> Len(codebaseInput.files),
                      filesIndexed |-> Len(sorted),
                      filesIgnored |-> filesIgnored,
                      totalSizeBytes |-> totalSize,
                      errors |-> errors,
                      warnings |-> warnings,
                      priorityFiles |-> createPriorityFileMap(sorted),
                      statistics |-> calculateStatistics(sorted)]
  /\ pc' = "done"
  /\ UNCHANGED <<options, fault, codebaseInput, given, filteredFiles, k,
                 totalSize, filesIgnored, errors, warnings, thrown>>
  /\ UNCHANGED <<classifierVars, helperVars>>

(***************************************************************************)
(* Regular expressions over one line of content.  An expression is a       *)
(* sequence of elements: an alternation of literal strings, or a character *)
(* class repeated at least min times (greedy, unbounded unless one is set). *)
(***************************************************************************)

Alt(strings) == [kind |-> "alt", strings |-> strings, cls |-> "", min |-> 0, one |-> FALSE]

Lit(string) == Alt({string})

\* cls+ : one or more
Plus(cls) == [kind |-> "class", strings |-> {}, cls |-> cls, min |-> 1, one |-> FALSE]

\* cls* : zero or more
Star(cls) == [kind |-> "class", strings |-> {}, cls |-> cls, min |-> 0, one |-> FALSE]

\* a single character of the class
One(cls) == [kind |-> "class", strings |-> {}, cls |-> cls, min |-> 1, one |-> TRUE]

WordChars ==
  {"a", "b", "c", "d", "e", "f", "g", "h", "i", "j", "k", "l", "m", "n", "o",
   "p", "q", "r", "s", "t", "u", "v", "w", "x", "y", "z",
   "A", "B", "C", "D", "E", "F", "G", "H", "I", "J", "K", "L", "M", "N", "O",
   "P", "Q", "R", "S", "T", "U", "V", "W", "X", "Y", "Z",
   "0", "1", "2", "3", "4", "5", "6", "7", "8", "9", "_"}

\* \s, \w, '.', [^.] and ['"] on one character
InClass(cls, c) ==
  CASE cls = "space" -> c \in {" ", "\t"}
    [] cls = "word" -> c \in WordChars
    [] cls = "any" -> TRUE
    [] cls = "notdot" -> c # "."
    [] cls = "quote" -> c \in {"'", "\""}

\* the positions after a match of one element that starts at position i
ElementEnds(el, s, i) ==
  IF el.kind = "alt"
  THEN {i + Len(a) : a \in {b \in el.strings : /\ i + Len(b) - 1 <= Len(s)
                                                 /\ SubSeq(s, i, i + Len(b) - 1) = b}}
  ELSE {j \in (i + el.min)..(IF el.one THEN i + 1 ELSE Len(s) + 1) :
          j <= Len(s) + 1 /\ \A x \in i..(j - 1) : InClass(el.cls, CharAt(s, x))}

\* the positions after a match of the whole expression from the positions in
\* starts
RECURSIVE MatchEnds(_, _, _)
MatchEnds(re, s, starts) ==
  IF re = <<>> \/ starts = {} THEN starts
  ELSE MatchEnds(Tail(re), s, UNION {ElementEnds(Head(re), s, i) : i \in starts})

\* RegExp.prototype.test without flags
LineTest(re, s) == \E i \in 1..(Len(s) + 1) : MatchEnds(re, s, {i}) # {}

SetMax(S) == CHOOSE x \in S : \A y \in S : y <= x

\* the number of matches String.prototype.match returns for a /g expression:
\* leftmost match, then on from its end.  The expressions counted here end
\* in a greedy class or a literal, so a match ends at its furthest end
SetMin(S) == CHOOSE x \in S : \A y \in S : x <= y

RECURSIVE CountFrom(_, _, _)
CountFrom(re, s, i) ==
  The({IF starts = {} THEN 0
       ELSE 1 + CountFrom(re, s, SetMax(MatchEnds(re, s, {SetMin(starts)})))
       : starts \in {{j \in i..Len(s) : MatchEnds(re, s, {j}) # {}}}})

LineMatchCount(re, s) == CountFrom(re, s, 1)

(***************************************************************************)
(* File content: absent, or a text given as runs of a repeated line        *)
(* (line, count), the lines joined by newlines.  No line of the pool       *)
(* begins or ends inside a match, so matches are counted line by line.     *)
(***************************************************************************)

Run(line, count) == [line |-> line, count |-> count]

Content(runs) == [present |-> TRUE, runs |-> runs]

\* content === undefined
NoContent == [present |-> FALSE, runs |-> <<>>]

\* the truthiness of content: undefined and '' are falsy
Truthy(content) ==
  content.present /\ \E r \in 1..Len(content.runs) :
                        content.runs[r].count > 1 \/ content.runs[r].line # ""

RECURSIVE SumCounts(_)
SumCounts(runs) == IF runs = <<>> THEN 0 ELSE Head(runs).count + SumCounts(Tail(runs))

\* content.split('\n').length
LineCount(content) == SumCounts(content.runs)

\* content.includes(marker), for a marker without a newline
ContentIncludes(content, marker) ==
  \E r \in 1..Len(content.runs) :
    content.runs[r].count > 0 /\ Includes(content.runs[r].line, marker)

\* pattern.test(content)
ContentTest(content, re) ==
  \E r \in 1..Len(content.runs) :
    content.runs[r].count > 0 /\ LineTest(re, content.runs[r].line)

RECURSIVE SumMatches(_, _)
SumMatches(runs, re) ==
  IF runs = <<>> THEN 0
  ELSE Head(runs).count * LineMatchCount(re, Head(runs).line) + SumMatches(Tail(runs), re)

\* (content.match(re) || []).length for a /g expression
MatchCount(content, re) == SumMatches(content.runs, re)

(***************************************************************************)
(* FilePriorityClassifier (analyzers/file-priority-classifier.ts)          *)
(***************************************************************************)

classifierEntryPoints ==
  {"index.js", "index.ts", "main.js", "main.ts", "app.js", "app.ts",
   "server.js", "server.ts", "main.py", "app.py", "__main__.py",
   "Main.java", "Program.cs", "main.go", "lib.rs", "main.rs"}

isEntryPoint(fileName) ==
  fileName \in classifierEntryPoints \/ EndsWith(fileName, "Application.java")

isConfiguration(fileName, type) == type = "config" \/ isConfigFile(fileName)

isPackageDefinition(fileName) ==
  fileName \in {"package.json", "requirements.txt", "pom.xml", "build.gradle",
                "Cargo.toml", "go.mod", "composer.json", "Gemfile", "setup.py",
                "pyproject.toml", "Package.swift", "pubspec.yaml"}

isSchema(fileName, path) ==
  \/ Includes(fileName, "schema")
  \/ Includes(fileName, "openapi")
  \/ Includes(fileName, "swagger")
  \/ Includes(path, "/schema/")
  \/ EndsWith(fileName, ".graphql")
  \/ EndsWith(fileName, ".proto")
  \/ EndsWith(fileName, ".avsc")

isInfrastructure(fileName, path) ==
  \/ Includes(fileName, "Dockerfile")
  \/ Includes(fileName, "docker-compose")
  \/ fileName = ".dockerignore"
  \/ Includes(path, "docker/")
  \/ Includes(path, ".github/")
  \/ Includes(fileName, ".gitlab-ci")
  \/ Includes(fileName, "jenkins")
  \/ Includes(fileName, "terraform")
  \/ Includes(fileName, "ansible")

isTest(fileName, path) ==
  \/ Includes(fileName, ".test.")
  \/ Includes(fileName, ".spec.")
  \/ Includes(path, "/test/")
  \/ Includes(path, "/__tests__/")
  \/ Includes(path, "/tests/")
  \/ EndsWith(fileName, "Test.java")
  \/ EndsWith(fileName, "_test.go")

isDocumentation(fileName, path, type) ==
  \/ type = "documentation"
  \/ EndsWith(fileName, ".md")
  \/ EndsWith(fileName, ".txt")
  \/ EndsWith(fileName, ".rst")
  \/ EndsWith(fileName, ".adoc")
  \/ Includes(path, "/docs/")

generatedMarkers ==
  {"This file was automatically generated", "DO NOT EDIT", "Auto-generated",
   "@generated", "Code generated by"}

isGenerated(fileName, path, content) ==
  \/ Includes(fileName, ".generated.")
  \/ Includes(fileName, ".gen.")
  \/ Includes(path, "/generated/")
  \/ Includes(path, "/.next/")
  \/ Includes(path, "/dist/")
  \/ Includes(path, "/build/")
  \/ Truthy(content) /\ \E marker \in generatedMarkers : ContentIncludes(content, marker)

\* /class\s+\w+/g and the seven other indicators
complexityIndicators ==
  {<<Lit("class"), Plus("space"), Plus("word")>>,
   <<Lit("function"), Plus("space"), Plus("word")>>,
   <<Lit("def"), Plus("space"), Plus("word")>>,
   <<Lit("if"), Star("space"), Lit("(")>>,
   <<Lit("for"), Star("space"), Lit("(")>>,
   <<Lit("while"), Star("space"), Lit("(")>>,
   <<Lit("switch"), Star("space"), Lit("(")>>,
   <<Lit("try"), Star("space"), Lit("{")>>}

RECURSIVE SumOfMatchCounts(_, _)
SumOfMatchCounts(content, patterns) ==
  IF patterns = {} THEN 0
  ELSE LET p == CHOOSE q \in patterns : TRUE
       IN MatchCount(content, p) + SumOfMatchCounts(content, patterns \ {p})

hasComplexLogic(content) ==
  Truthy(content) /\ SumOfMatchCounts(content, complexityIndicators) > 10

dependencyPatterns ==
  {<<Lit("import"), Plus("space"), Star("any"), Lit("from"), Plus("space"),
     One("quote"), One("notdot")>>,
   <<Lit("require"), Star("space"), Lit("("), Star("space"), One("quote"),
     One("notdot")>>,
   <<Lit("from"), Plus("space"), Plus("word"), Plus("space"), Lit("import")>>,
   <<Lit("#include"), Star("space"), Lit("<"), Plus("word"), Lit(">")>>}

hasExternalDependencies(content) ==
  Truthy(content) /\ \E pattern \in dependencyPatterns : ContentTest(content, pattern)

exportPatterns ==
  {<<Lit("export"), Plus("space"), Alt({"class", "function", "interface", "type"})>>,
   <<Lit("module.exports")>>,
   <<Lit("public"), Plus("space"), Alt({"class", "interface"})>>,
   <<Lit("__all__"), Star("space"), Lit("=")>>}

isPublicInterface(fileName, path, content) ==
  \/ Includes(fileName, "api")
  \/ Includes(fileName, "interface")
  \/ Includes(fileName, "public")
  \/ Includes(path, "/api/")
  \/ Includes(path, "/public/")
  \/ Truthy(content) /\ \E pattern \in exportPatterns : ContentTest(content, pattern)
\* a chain that tries the test predicate first
determineArchitecturalRoleTestFirst(fileName, path, type) ==
  IF isTest(fileName, path) THEN "testing"
  ELSE IF isInfrastructure(fileName, path) THEN "infrastructure"
  ELSE IF Includes(fileName, "deploy") \/ Includes(path, "/deploy/") THEN "deployment"
  ELSE IF \/ Includes(fileName, "build")
          \/ Includes(fileName, "webpack")
          \/ Includes(fileName, "rollup") THEN "build-system"
  ELSE IF isConfiguration(fileName, type) THEN "configuration"
  ELSE IF isDocumentation(fileName, path, type) THEN "documentation"
  ELSE IF \/ Includes(fileName, "api")
          \/ Includes(path, "/api/")
          \/ isSchema(fileName, path) THEN "api-interface"
  ELSE IF \/ Includes(fileName, "model")
          \/ Includes(fileName, "repository")
          \/ Includes(fileName, "dao")
          \/ Includes(path, "/models/")
          \/ Includes(path, "/data/") THEN "data-access"
  ELSE IF \/ Includes(fileName, "auth")
          \/ Includes(fileName, "security")
          \/ Includes(fileName, "crypto") THEN "security"
  ELSE IF \/ Includes(fileName, "log")
          \/ Includes(fileName, "monitor")
          \/ Includes(fileName, "metric") THEN "monitoring"
  ELSE IF \/ Includes(fileName, "util")
          \/ Includes(fileName, "helper")
          \/ Includes(path, "/utils/") THEN "utility"
  ELSE IF type = "source" /\ ~isTest(fileName, path) THEN "core-business-logic"
  ELSE "unknown"

determineArchitecturalRole(fileName, path, type) ==
  IF isInfrastructure(fileName, path) THEN "infrastructure"
  ELSE IF Includes(fileName, "deploy") \/ Includes(path, "/deploy/") THEN "deployment"
  ELSE IF \/ Includes(fileName, "build")
          \/ Includes(fileName, "webpack")
          \/ Includes(fileName, "rollup") THEN "build-system"
  ELSE IF isConfiguration(fileName, type) THEN "configuration"
  ELSE IF isTest(fileName, path) THEN "testing"
  ELSE IF isDocumentation(fileName, path, type) THEN "documentation"
  ELSE IF \/ Includes(fileName, "api")
          \/ Includes(path, "/api/")
          \/ isSchema(fileName, path) THEN "api-interface"
  ELSE IF \/ Includes(fileName, "model")
          \/ Includes(fileName, "repository")
          \/ Includes(fileName, "dao")
          \/ Includes(path, "/models/")
          \/ Includes(path, "/data/") THEN "data-access"
  ELSE IF \/ Includes(fileName, "auth")
          \/ Includes(fileName, "security")
          \/ Includes(fileName, "crypto") THEN "security"
  ELSE IF \/ Includes(fileName, "log")
          \/ Includes(fileName, "monitor")
          \/ Includes(fileName, "metric") THEN "monitoring"
  ELSE IF \/ Includes(fileName, "util")
          \/ Includes(fileName, "helper")
          \/ Includes(path, "/utils/") THEN "utility"
  ELSE IF type = "source" /\ ~isTest(fileName, path) THEN "core-business-logic"
  ELSE "unknown"

analyzeFileCharacteristics(path, content, type) ==
  The({[isEntryPoint |-> isEntryPoint(fileName),
        isConfiguration |-> isConfiguration(fileName, type),
        isPackageDefinition |-> isPackageDefinition(fileName),
        isSchema |-> isSchema(fileName, path),
        isInfrastructure |-> isInfrastructure(fileName, path),
        isTest |-> isTest(fileName, path),
        isDocumentation |-> isDocumentation(fileName, path, type),
        isGenerated |-> isGenerated(fileName, path, content),
        hasComplexLogic |-> hasComplexLogic(content),
        hasExternalDependencies |-> hasExternalDependencies(content),
        isPublicInterface |-> isPublicInterface(fileName, path, content),
        architecturalRole |-> determineArchitecturalRole(fileName, path, type)]
       : fileName \in {FileNameOf(path)}})

RoleScore(role) ==
  CASE role = "core-business-logic" -> 80
    [] role = "api-interface" -> 75
    [] role = "data-access" -> 65
    [] role = "security" -> 70
    [] role = "configuration" -> 60
    [] role = "infrastructure" -> 55
    [] role = "build-system" -> 50
    [] role = "deployment" -> 45
    [] role = "monitoring" -> 40
    [] role = "utility" -> 35
    [] role = "testing" -> 25
    [] role = "documentation" -> 20
    [] OTHER -> 30

sourceExtensions == {"js", "ts", "py", "java", "go", "rs", "cs", "php", "rb"}

\* a base score that rewards test files instead of penalising them
calculateBaseScoreTestBonus(extension, ch) ==
  (IF ch.isPackageDefinition THEN 100 ELSE 0)
  + (IF ch.isEntryPoint THEN 90 ELSE 0)
  + (IF ch.isConfiguration THEN 50 ELSE 0)
  + (IF ch.isSchema THEN 55 ELSE 0)
  + (IF ch.isInfrastructure THEN 50 ELSE 0)
  + (IF ch.isPublicInterface THEN 45 ELSE 0)
  + RoleScore(ch.architecturalRole)
  + (IF extension \in sourceExtensions THEN 30 ELSE 0)
  + (IF ch.isTest THEN 15 ELSE 0)
  - (IF ch.isGenerated THEN 20 ELSE 0)
  - (IF ch.isDocumentation /\ ~ch.isSchema THEN 10 ELSE 0)

calculateBaseScore(extension, ch) ==
  (IF ch.isPackageDefinition THEN 100 ELSE 0)
  + (IF ch.isEntryPoint THEN 90 ELSE 0)
  + (IF ch.isConfiguration THEN 50 ELSE 0)
  + (IF ch.isSchema THEN 55 ELSE 0)
  + (IF ch.isInfrastructure THEN 50 ELSE 0)
  + (IF ch.isPublicInterface THEN 45 ELSE 0)
  + RoleScore(ch.architecturalRole)
  + (IF extension \in sourceExtensions THEN 30 ELSE 0)
  - (IF ch.isTest THEN 15 ELSE 0)
  - (IF ch.isGenerated THEN 20 ELSE 0)
  - (IF ch.isDocumentation /\ ~ch.isSchema THEN 10 ELSE 0)
\* a classifier that ignores the project type
getProjectTypeAdjustmentNone(opts, ch) == 0

getProjectTypeAdjustment(opts, ch) ==
  CASE opts.projectType = "api-service" ->
         (IF ch.architecturalRole = "api-interface" THEN 20 ELSE 0)
         + (IF ch.isSchema THEN 15 ELSE 0)
    [] opts.projectType = "library" ->
         (IF ch.isPublicInterface THEN 25 ELSE 0)
         + (IF ch.isDocumentation THEN 10 ELSE 0)
    [] opts.projectType = "cli-tool" ->
         (IF ch.isEntryPoint THEN 15 ELSE 0)
         + (IF ch.isConfiguration THEN 10 ELSE 0)
    [] opts.projectType = "microservice" ->
         (IF ch.isInfrastructure THEN 15 ELSE 0)
         + (IF ch.architecturalRole = "monitoring" THEN 10 ELSE 0)
    [] opts.projectType = "monorepo" ->
         (IF ch.isPackageDefinition THEN 10 ELSE 0)
         + (IF ch.architecturalRole = "build-system" THEN 15 ELSE 0)
    [] OTHER -> 0

LanguageAdjustment(opts, fileName) ==
  CASE opts.primaryLanguage = "typescript" ->
         (IF EndsWith(fileName, ".d.ts") THEN 15 ELSE 0)
         + (IF fileName = "tsconfig.json" THEN 10 ELSE 0)
    [] opts.primaryLanguage = "python" ->
         (IF fileName = "__init__.py" THEN 15 ELSE 0)
         + (IF fileName = "setup.py" \/ fileName = "pyproject.toml" THEN 10 ELSE 0)
    [] opts.primaryLanguage = "java" ->
         (IF EndsWith(fileName, "Application.java") THEN 15 ELSE 0)
         + (IF fileName = "pom.xml" \/ fileName = "build.gradle" THEN 10 ELSE 0)
    [] opts.primaryLanguage = "go" ->
         (IF fileName = "main.go" THEN 15 ELSE 0)
         + (IF fileName = "go.mod" THEN 10 ELSE 0)
    [] OTHER -> 0

FrameworkAdjustment(opts, fileName) ==
  LET framework == ToLowerCase(opts.framework) IN
  CASE framework = "react" ->
         IF Includes(fileName, "App.") \/ Includes(fileName, "index.") THEN 10 ELSE 0
    [] framework = "express" ->
         IF Includes(fileName, "server.") \/ Includes(fileName, "app.") THEN 10 ELSE 0
    [] framework = "spring" ->
         (IF Includes(fileName, "Application.java") THEN 15 ELSE 0)
         + (IF \/ Includes(fileName, "application.properties")
               \/ Includes(fileName, "application.yml") THEN 10 ELSE 0)
    [] framework = "django" ->
         IF fileName = "settings.py" \/ fileName = "urls.py" THEN 10 ELSE 0
    [] OTHER -> 0

getLanguageFrameworkAdjustment(opts, path) ==
  The({LanguageAdjustment(opts, fileName) + FrameworkAdjustment(opts, fileName)
       : fileName \in {FileNameOf(path)}})

\* a custom scoring rule whose pattern is a string
StringRule(text, adjustment, reason) ==
  [regex |-> FALSE, text |-> text, re |-> <<>>, global |-> FALSE,
   scoreAdjustment |-> adjustment, reason |-> reason]

\* a custom scoring rule whose pattern is a RegExp, with or without the g flag
RegexRule(re, global, adjustment, reason) ==
  [regex |-> TRUE, text |-> "", re |-> re, global |-> global,
   scoreAdjustment |-> adjustment, reason |-> reason]

\* RegExp.prototype.test on a /g expression: the search starts at lastIndex
\* (a 0-based offset); the result is the match's end offset, or -1
GlobalExecEnd(re, s, lastIndex) ==
  LET starts == {i \in (lastIndex + 1)..(Len(s) + 1) : MatchEnds(re, s, {i}) # {}}
  IN IF lastIndex > Len(s) \/ starts = {} THEN -1
     ELSE SetMax(MatchEnds(re, s, {CHOOSE i \in starts : \A j \in starts : i <= j})) - 1

\* does the rule match the path, given the lastIndex its RegExp carries
RuleMatches(rule, lastIndex, path) ==
  IF ~rule.regex THEN Includes(path, rule.text)
  ELSE IF ~rule.global THEN LineTest(rule.re, path)
  ELSE GlobalExecEnd(rule.re, path, lastIndex) >= 0

\* the lastIndex the rule's RegExp carries after the test
RuleLastIndexAfter(rule, lastIndex, path) ==
  IF ~(rule.regex /\ rule.global) THEN lastIndex
  ELSE MathMax(GlobalExecEnd(rule.re, path, lastIndex), 0)

RECURSIVE SumAdjustments(_, _, _, _)
SumAdjustments(rules, lastIndexes, path, r) ==
  IF r > Len(rules) THEN 0
  ELSE (IF RuleMatches(rules[r], lastIndexes[r], path)
        THEN rules[r].scoreAdjustment ELSE 0)
       + SumAdjustments(rules, lastIndexes, path, r + 1)

\* applyCustomScoringRules: every matching rule adds its adjustment
applyCustomScoringRules(opts, lastIndexes, path) ==
  SumAdjustments(opts.customScoringRules, lastIndexes, path, 1)

\* the state the rules' RegExp objects are left in by applyCustomScoringRules
LastIndexesAfter(opts, lastIndexes, path) ==
  [r \in 1..Len(opts.customScoringRules) |->
     RuleLastIndexAfter(opts.customScoringRules[r], lastIndexes[r], path)]

\* the cap of the content-complexity bonus
CapComplexity(complexity) == MathMin(complexity, 25)

functionPattern ==
  <<Alt({"function", "def", "func", "fn", "public", "private", "protected"}),
    Plus("space"), Plus("word")>>

classPattern == <<Alt({"class", "interface", "struct", "enum"}), Plus("space"), Plus("word")>>

importPattern == <<Alt({"import", "require", "from", "#include", "use"}), Plus("space")>>

analyzeContentComplexity(content, extension) ==
  The({CapComplexity(
         (IF lineCount > 500 THEN 15 ELSE IF lineCount > 200 THEN 10
          ELSE IF lineCount > 100 THEN 5 ELSE 0)
         + (IF extension \in {"js", "ts", "py", "java", "go", "rs", "cs"}
            THEN (IF functions > 20 THEN 10 ELSE IF functions > 10 THEN 5 ELSE 0)
                 + (IF classes > 5 THEN 10 ELSE IF classes > 2 THEN 5 ELSE 0)
                 + (IF imports > 20 THEN 5 ELSE 0)
            ELSE 0))
       : lineCount \in {LineCount(content)},
         functions \in {MatchCount(content, functionPattern)},
         classes \in {MatchCount(content, classPattern)},
         imports \in {MatchCount(content, importPattern)}})
\* the bands of the file utilities (80 / 50 / 20) used in place of the classifier's
ClassifierCategoryUtilsBands(score) ==
  IF score >= 80 THEN "critical"
  ELSE IF score >= 50 THEN "important"
  ELSE IF score >= 20 THEN "normal"
  ELSE "ignore"

\* the category bands of the classifier
ClassifierCategory(score) ==
  IF score >= 100 THEN "critical"
  ELSE IF score >= 60 THEN "important"
  ELSE IF score >= 20 THEN "normal"
  ELSE "ignore"

CategoryReasons(ch) ==
  (IF ch.isPackageDefinition THEN <<"Package/dependency definition">> ELSE <<>>)
  \o (IF ch.isEntryPoint THEN <<"Application entry point">> ELSE <<>>)
  \o (IF ch.isConfiguration THEN <<"Configuration file">> ELSE <<>>)
  \o (IF ch.isSchema THEN <<"Schema/API definition">> ELSE <<>>)
  \o (IF ch.isInfrastructure THEN <<"Infrastructure configuration">> ELSE <<>>)
  \o (IF ch.isPublicInterface THEN <<"Public API interface">> ELSE <<>>)
  \o (IF ch.hasComplexLogic THEN <<"Contains complex business logic">> ELSE <<>>)
  \o (IF ch.hasExternalDependencies THEN <<"Has external dependencies">> ELSE <<>>)
  \o (CASE ch.architecturalRole = "core-business-logic" -> <<"Core business logic">>
        [] ch.architecturalRole = "api-interface" -> <<"API interface">>
        [] ch.architecturalRole = "data-access" -> <<"Data access layer">>
        [] ch.architecturalRole = "security" -> <<"Security component">>
        [] OTHER -> <<>>)
  \o (IF ch.isTest THEN <<"Test file (lower priority)">> ELSE <<>>)
  \o (IF ch.isGenerated THEN <<"Generated file (lower priority)">> ELSE <<>>)
  \o (IF ch.isDocumentation /\ ~ch.isSchema THEN <<"Documentation file">> ELSE <<>>)

determineCategory(score, ch) ==
  [category |-> ClassifierCategory(score), reasons |-> CategoryReasons(ch)]

Recommendation(type, priority, description, action) ==
  [type |-> type, priority |-> priority, description |-> description, action |-> action]

generateRecommendations(ch) ==
  (IF ch.isEntryPoint \/ ch.isPackageDefinition
   THEN <<Recommendation("analysis", "high",
                         "Critical file for understanding application structure",
                         "Analyze first for tech stack detection")>> ELSE <<>>)
  \o (IF ch.isSchema
      THEN <<Recommendation("generation", "high",
                            "API schema affects infrastructure requirements",
                            "Use for API gateway and service mesh configuration")>>
      ELSE <<>>)
  \o (IF ch.isInfrastructure
      THEN <<Recommendation("analysis", "medium",
                            "Existing infrastructure configuration",
                            "Analyze for current deployment patterns")>> ELSE <<>>)
  \o (IF ch.hasComplexLogic
      THEN <<Recommendation("monitoring", "medium",
                            "Complex logic may need monitoring",
                            "Consider performance monitoring and logging")>> ELSE <<>>)
  \o (IF ch.architecturalRole = "security"
      THEN <<Recommendation("security", "high", "Security-related component",
                            "Apply security best practices in generated configs")>>
      ELSE <<>>)

\* a clamp that forgets the upper bound
ClampLowerOnly(score) == MathMax(0, score)

\* Math.max(0, Math.min(200, score))
ClampScore(score) == MathMax(0, MathMin(200, score))

\* the score classifyFile assembles before it clamps
RawScore(opts, lastIndexes, path, content, type, ch) ==
  calculateBaseScore(ToLowerCase(SplitPop(FileNameOf(path), ".")), ch)
  + getProjectTypeAdjustment(opts, ch)
  + getLanguageFrameworkAdjustment(opts, path)
  + applyCustomScoringRules(opts, lastIndexes, path)
  + (IF opts.enableContentAnalysis /\ Truthy(content)
     THEN analyzeContentComplexity(content, ToLowerCase(SplitPop(FileNameOf(path), ".")))
     ELSE 0)

\* the classification built from the characteristics and the assembled score
Classification(ch, score) ==
  [importance |-> [score |-> ClampScore(score),
                   reasons |-> determineCategory(score, ch).reasons,
                   category |-> determineCategory(score, ch).category],
   characteristics |-> ch,
   recommendations |-> generateRecommendations(ch)]

classifyFile(opts, lastIndexes, path, content, type) ==
  The({The({Classification(ch, score)
            : score \in {RawScore(opts, lastIndexes, path, content, type, ch)}})
       : ch \in {analyzeFileCharacteristics(path, content, type)}})

\* most classifyFile calls on one classifier instance
MaxCalls == 2

ClassifierOptions(projectType, language, framework, contentAnalysis, rules) ==
  [projectType |-> projectType, primaryLanguage |-> language, framework |-> framework,
   enableContentAnalysis |-> contentAnalysis, customScoringRules |-> rules]

\* the defaults of the FilePriorityClassifier constructor
DefaultClassifierOptions == ClassifierOptions("web-app", "javascript", "", TRUE, <<>>)

ProjectTypes ==
  {"web-app", "api-service", "library", "cli-tool", "mobile-app", "desktop-app",
   "microservice", "monorepo"}

\* lists of custom scoring rules: extreme boosts and penalties, compounding
\* rules, and rules given as regular expressions with and without the g flag
RuleListPool ==
  {<<StringRule("src/", 1000, "Huge boost")>>,
   <<StringRule("src/", -1000, "Huge penalty")>>,
   <<StringRule("src", 25, "Source tree"), StringRule("index", 15, "Index file"),
     StringRule("README", -30, "Readme")>>,
   <<RegexRule(<<Lit("index")>>, TRUE, 50, "Index file")>>,
   <<RegexRule(<<Lit("."), Alt({"ts", "md"})>>, FALSE, 10, "Typed or text"),
     StringRule("api", 1000, "API boost")>>,
   <<StringRule(".test.", 40, "Tests matter")>>}

\* configurations: the defaults, each project type, language and framework
\* on its own, content analysis off, and each rule list
ClassifierOptionsPool ==
  {ClassifierOptions(t, "javascript", "", TRUE, <<>>) : t \in ProjectTypes}
  \cup {ClassifierOptions("web-app", l, "", TRUE, <<>>) :
          l \in {"typescript", "python", "java", "go"}}
  \cup {ClassifierOptions("web-app", "javascript", f, TRUE, <<>>) :
          f \in {"React", "express", "spring", "django"}}
  \cup {ClassifierOptions("library", "typescript", "express", FALSE, <<>>)}
  \cup {ClassifierOptions(t, "javascript", "", TRUE, rules) :
          t \in {"web-app", "api-service"}, rules \in RuleListPool}

ClassifierPaths ==
  {"package.json", "src/index.ts", "src/utils.ts", "src/utils.test.ts",
   "Dockerfile", "README.md", "src/api/index.ts", "deploy/app.test.ts",
   "dist/a.gen.md", "src/auth/schema.graphql", ""}

\* contents: absent, empty, one statement, an export, a generated file, and
\* a long file dense in functions, classes and imports
ContentPool ==
  {NoContent,
   Content(<<Run("", 1)>>),
   Content(<<Run("console.log(1)", 1)>>),
   Content(<<Run("export function helper() { return true; }", 1)>>),
   Content(<<Run("// DO NOT EDIT", 1), Run("module.exports = {}", 1)>>),
   Content(<<Run("import a from 'b'", 21),
             Run("export class A { function f() { if (x) {} } }", 21),
             Run("", 500)>>)}

DeclaredTypes == {Undefined, "source", "config", "documentation"}

\* paths on which two or more steps of the architectural-role chain match,
\* and source files on which none does
RolePaths ==
  {"src/deploy/app.test.ts", "webpack.config.js", "docker/build.test.md",
   "src/models/api.ts", "src/data/auth.ts", "src/authlog.ts", "src/utils/logger.ts",
   "a/docs/helper.ts", "src/business/orders.ts", "src/very/very/deep/file.ts",
   "Dockerfile", "src/api/users.ts"}

RoleContents ==
  {NoContent, Content(<<Run("export class OrderService {}", 1)>>)}

ClassifyArgs(path, content, type) == [path |-> path, content |-> content, type |-> type]

\* no classifier is in use
ClassifierIdle ==
  /\ classifierOptions = DefaultClassifierOptions
  /\ ruleLastIndexes = <<>>
  /\ classifyArgs = ClassifyArgs("", NoContent, Undefined)
  /\ classifications = <<>>

\* a classifier built with some options (every RegExp starts at lastIndex 0),
\* and the arguments it will be called with
ClassifierInit ==
  /\ \/ /\ classifierOptions \in ClassifierOptionsPool
        /\ classifyArgs \in {ClassifyArgs(p, c, t) :
                               p \in ClassifierPaths, c \in ContentPool, t \in DeclaredTypes}
     \/ /\ classifierOptions \in {ClassifierOptions(t, "javascript", "", TRUE, <<>>) :
                                     t \in ProjectTypes}
        /\ classifyArgs \in {ClassifyArgs(p, c, t) :
                               p \in RolePaths, c \in RoleContents, t \in DeclaredTypes}
  /\ ruleLastIndexes = [r \in 1..Len(classifierOptions.customScoringRules) |-> 0]
  /\ classifications = <<>>

\* no indexer call is under way
IndexerIdle ==
  /\ options = Options(DefaultMaxFiles, DefaultMaxFileSize, <<>>, NoTypeRules)
  /\ fault = NoFault
  /\ codebaseInput = [hasFiles |-> TRUE, files |-> <<>>]
  /\ given = <<>>
  /\ pc = "idle"
  /\ filteredFiles = <<>>
  /\ k = 1
  /\ fileIndex = <<>>
  /\ totalSize = 0
  /\ filesIgnored = 0
  /\ errors = <<>>
  /\ warnings = <<>>
  /\ result = NoResult
  /\ thrown = NoError

\* one call of classifyFile with the chosen arguments
ClassifyFile ==
  /\ Len(classifications) < MaxCalls
  /\ classifications' =
       Append(classifications,
              classifyFile(classifierOptions, ruleLastIndexes, classifyArgs.path,
                           classifyArgs.content, classifyArgs.type))
  /\ ruleLastIndexes' = LastIndexesAfter(classifierOptions, ruleLastIndexes, classifyArgs.path)
  /\ UNCHANGED <<classifierOptions, classifyArgs>>
  /\ UNCHANGED <<indexerVars, helperVars>>

(***************************************************************************)
(* getTopPriorityFiles of FilePriorityClassifier and of FileIndexer        *)
(***************************************************************************)

MaxTopLen == 3

MaxLimit == 3

\* an index entry as far as getTopPriorityFiles reads it
TopEntry(path, score, category) ==
  [path |-> path, importance |-> [score |-> score, category |-> category]]

\* entries a caller may put in a list: equal scores, categories that do not
\* follow from the score, entries of every category
TopEntryPool ==
  { TopEntry("package.json", 150, "critical"),
    TopEntry("src/index.ts", 120, "critical"),
    TopEntry("src/utils.ts", 120, "important"),
    TopEntry("docs/guide.md", 80, "important"),
    TopEntry("src/test.ts", 130, "normal") }

\* a negative limit is what slice counts from the end
TopLimits == (-1)..MaxLimit

NoTop == [returned |-> FALSE, files |-> <<>>]

\* Array.prototype.slice(0, limit)
SliceFromStart(list, limit) ==
  LET end == IF limit < 0 THEN MathMax(Len(list) + limit, 0) ELSE MathMin(limit, Len(list))
  IN SubSeq(list, 1, end)

\* the filter both implementations apply
IsHighPriority(file) == file.importance.category \in {"critical", "important"}

\* the classifier's chain without its sort
getTopPriorityFilesUnsorted(files, limit) ==
  SliceFromStart(SelectSeq(files, IsHighPriority), limit)

\* FilePriorityClassifier.getTopPriorityFiles: filter, sort the filtered copy
\* by score descending, slice
getTopPriorityFiles(files, limit) ==
  SliceFromStart(SortByScoreDescending(SelectSeq(files, IsHighPriority)), limit)

\* the array passed in after the call: filter returns a new array and the
\* sort works on that copy
FilesAfterGetTopPriorityFiles(files) == files

\* the indexer's filter and slice without the filter
IndexerGetTopPriorityFilesUnfiltered(index, limit) == SliceFromStart(index, limit)

\* FileIndexer.getTopPriorityFiles: filter and slice of index.fileIndex
IndexerGetTopPriorityFiles(index, limit) ==
  SliceFromStart(SelectSeq(index, IsHighPriority), limit)

TopIdle ==
  /\ topFiles = <<>>
  /\ topGiven = <<>>
  /\ topLimit = 0
  /\ topResult = NoTop

TopInit ==
  /\ topFiles \in SeqsUpTo(TopEntryPool, MaxTopLen)
  /\ topGiven = topFiles
  /\ topLimit \in TopLimits
  /\ topResult = NoTop

\* one call classifier.getTopPriorityFiles(topFiles, topLimit)
GetTopPriorityFiles ==
  /\ ~topResult.returned
  /\ topResult' = [returned |-> TRUE, files |-> getTopPriorityFiles(topFiles, topLimit)]
  /\ topFiles' = FilesAfterGetTopPriorityFiles(topFiles)
  /\ UNCHANGED <<topGiven, topLimit>>
  /\ UNCHANGED <<indexerVars, classifierVars, parserVars, managerVars>>

(***************************************************************************)
(* ASTParser (analyzers/ast-parser.ts): parseFile and its cache            *)
(***************************************************************************)

\* the characters with char codes 32 to 126 in runs of consecutive codes (the
\* backtick, 96, is left out), and the line feed
CodeRuns ==
  { [chars |-> " !\"#$%&'()*+,-./0123456789:;<=>?@ABCDEFGHIJKLMNOPQRSTUVWXYZ[\\]^_", first |-> 32],
    [chars |-> "abcdefghijklmnopqrstuvwxyz{|}~", first |-> 97],
    [chars |-> "\n", first |-> 10] }

CharCodes ==
  [c \in UNION {{CharAt(r.chars, i) : i \in 1..Len(r.chars)} : r \in CodeRuns} |->
     The(UNION {{r.first + i - 1 : i \in {j \in 1..Len(r.chars) : CharAt(r.chars, j) = c}} :
                  r \in CodeRuns})]

\* String.prototype.charCodeAt for the characters of the model's strings
charCodeAt(s, i) == CharCodes[CharAt(s, i)]

\* String.prototype.substring(0, n)
SubstringFromStart(s, n) == SubSeq(s, 1, MathMin(n, Len(s)))

\* a 32-bit integer as its two 16-bit halves
Halves(hi, lo) == [hi |-> hi, lo |-> lo]

\* hash = (hash << 5) - hash + char; hash = hash & hash: 31 * hash + char
\* wrapped to 32 bits, computed on the 16-bit halves
HashStep(hash, char) ==
  LET low == 31 * hash.lo + char
  IN Halves((31 * hash.hi + low \div 65536) % 65536, low % 65536)

\* the signed value of a 32-bit integer
ToInt32(hash) ==
  IF hash.hi >= 32768 THEN (hash.hi - 65536) * 65536 + hash.lo
  ELSE hash.hi * 65536 + hash.lo

\* the loop of getCacheKey over the characters i to last of str, in order;
\* the range is walked half by half to keep the evaluation shallow
RECURSIVE HashRange(_, _, _, _)
HashRange(str, i, last, hash) ==
  IF i > last THEN hash
  ELSE IF i = last THEN HashStep(hash, charCodeAt(str, i))
  ELSE The({HashRange(str, (i + last) \div 2 + 1, last, h) :
              h \in {HashRange(str, i, (i + last) \div 2, hash)}})

\* how much of the content enters the cache key
KeyPrefixLength == 1000

\* getCacheKey(path, content): the 32-bit hash of the path followed by the
\* first 1000 characters of the content (the decimal string of the hash is
\* the key; distinct integers have distinct decimal strings)
getCacheKey(path, content) ==
  The({ToInt32(HashRange(str, 1, Len(str), Halves(0, 0))) :
         str \in {path \o SubstringFromStart(content, KeyPrefixLength)}})

\* String.prototype.split on a one-character separator
Split(s, c) ==
  LET cuts == {0} \cup SepPositions(s, c) \cup {Len(s) + 1}
      starts == cuts \ {Len(s) + 1}
  IN [n \in 1..Cardinality(starts) |->
        The({SubSeq(s, a + 1, SetMin({b \in cuts : b > a}) - 1) :
               a \in {x \in starts : Cardinality({y \in starts : y < x}) = n - 1}})]

WhiteSpace == {" ", "\t", "\n", "\r"}

\* String.prototype.trim
Trim(s) ==
  LET inked == {i \in 1..Len(s) : CharAt(s, i) \notin WhiteSpace}
  IN IF inked = {} THEN "" ELSE SubSeq(s, SetMin(inked), SetMax(inked))

\* the positions of s at which text starts
Occurrences(s, text) ==
  {i \in 1..(Len(s) - Len(text) + 1) : SubSeq(s, i, i + Len(text) - 1) = text}

\* the end of the longest run of characters of a set that starts at i
\* (i - 1 when there is none)
RunEnd(s, i, chars) ==
  SetMax({i - 1} \cup {j \in i..Len(s) : \A x \in i..j : CharAt(s, x) \in chars})

\* line.match(/(k1|k2|..)\s+(\w+)/): the word of the leftmost keyword that is
\* followed by white space and a word; Undefined without a match
WordAfterKeyword(line, keywords) ==
  LET wordStart(kw, i) == RunEnd(line, i + Len(kw), WhiteSpace) + 1
      matches == {m \in {[at |-> i, word |-> wordStart(kw, i),
                          end |-> RunEnd(line, wordStart(kw, i), WordChars)] :
                           kw \in keywords, i \in 1..Len(line)} :
                    /\ \E kw \in keywords :
                         /\ m.at \in Occurrences(line, kw)
                         /\ m.word = wordStart(kw, m.at)
                         /\ m.word > m.at + Len(kw)
                    /\ m.end >= m.word}
  IN IF matches = {} THEN Undefined
     ELSE The({SubSeq(line, m.word, m.end) :
                 m \in {x \in matches : \A y \in matches : x.at <= y.at}})

Quotes == {"'", "\""}

\* line.match(/['"`]([^'"`]+)['"`]/): the text between the first quote that
\* is followed by a non-empty unquoted text and the quote that ends it
extractImportSource(line) ==
  LET quoted == {i \in 1..Len(line) : CharAt(line, i) \in Quotes}
      opening == {i \in quoted : \E j \in quoted : j > i + 1 /\ \A x \in quoted : ~(i < x /\ x < j)}
  IN IF opening = {} THEN ""
     ELSE The({SubSeq(line, i + 1, SetMin({j \in quoted : j > i}) - 1) : i \in {SetMin(opening)}})

isImportStatement(line, language) ==
  CASE language \in {"javascript", "typescript"} ->
         Includes(line, "import ") \/ Includes(line, "require(")
    [] language = "python" -> StartsWith(line, "import ") \/ StartsWith(line, "from ")
    [] language = "java" -> StartsWith(line, "import ")
    [] language = "go" -> Includes(line, "import ")
    [] OTHER -> FALSE

isFunctionDeclaration(line, language) ==
  CASE language \in {"javascript", "typescript"} ->
         Includes(line, "function ") \/ Includes(line, "=>")
    [] language = "python" -> StartsWith(line, "def ")
    [] language = "java" -> Includes(line, "public ") /\ Includes(line, "(")
    [] language = "go" -> StartsWith(line, "func ")
    [] OTHER -> FALSE

isClassDeclaration(line, language) ==
  CASE language \in {"javascript", "typescript"} -> Includes(line, "class ")
    [] language = "python" -> StartsWith(line, "class ")
    [] language = "java" -> Includes(line, "class ") \/ Includes(line, "interface ")
    [] OTHER -> FALSE

isVariableDeclaration(line, language) ==
  CASE language \in {"javascript", "typescript"} ->
         Includes(line, "const ") \/ Includes(line, "let ") \/ Includes(line, "var ")
    [] language = "python" ->
         Includes(line, " = ") /\ ~StartsWith(line, "def ") /\ ~StartsWith(line, "class ")
    [] language = "java" ->
         Includes(line, " = ") /\ (Includes(line, "int ") \/ Includes(line, "String "))
    [] language = "go" -> Includes(line, ":=") \/ Includes(line, "var ")
    [] OTHER -> FALSE

OrElse(value, default) == IF value = Undefined THEN default ELSE value

extractFunctionName(line, language) ==
  CASE language \in {"javascript", "typescript"} ->
         OrElse(WordAfterKeyword(line, {"function"}), "anonymous")
    [] language = "python" -> OrElse(WordAfterKeyword(line, {"def"}), "anonymous")
    [] OTHER -> "anonymous"

extractClassName(line) == OrElse(WordAfterKeyword(line, {"class"}), "Anonymous")

extractVariableName(line, language) ==
  IF language \in {"javascript", "typescript"}
  THEN OrElse(WordAfterKeyword(line, {"const", "let", "var"}), "unknown")
  ELSE "unknown"

\* the node parseContent pushes for a trimmed line; the empty sequence for a
\* line it skips
NodesOfLine(line, language, n) ==
  IF line = "" \/ StartsWith(line, "//") \/ StartsWith(line, "#") THEN <<>>
  ELSE IF isImportStatement(line, language)
    THEN <<[type |-> "ImportDeclaration", name |-> extractImportSource(line), line |-> n]>>
  ELSE IF isFunctionDeclaration(line, language)
    THEN <<[type |-> "FunctionDeclaration", name |-> extractFunctionName(line, language),
            line |-> n]>>
  ELSE IF isClassDeclaration(line, language)
    THEN <<[type |-> "ClassDeclaration", name |-> extractClassName(line), line |-> n]>>
  ELSE IF isVariableDeclaration(line, language)
    THEN <<[type |-> "VariableDeclaration", name |-> extractVariableName(line, language),
            line |-> n]>>
  ELSE <<>>

RECURSIVE NodesFrom(_, _, _)
NodesFrom(lines, n, language) ==
  IF n > Len(lines) THEN <<>>
  ELSE The({NodesOfLine(line, language, n) : line \in {Trim(lines[n])}})
         \o NodesFrom(lines, n + 1, language)

\* parseContent: one node per line that holds a recognised construct (the
\* field of an import node that holds its source is called name here)
parseContent(content, language) == NodesFrom(Split(content, "\n"), 1, language)

\* parseByLanguage
parseByLanguage(content, language) ==
  [type |-> "Program", body |-> parseContent(content, language), sourceType |-> "module"]

createEmptyAST == [type |-> "Program", body |-> <<>>, sourceType |-> "module"]

countNodes(ast) == 1 + Len(ast.body)

parserLanguageMap ==
  [e \in {"js", "jsx", "ts", "tsx", "py", "java", "go", "rs", "cs", "php", "rb"} |->
     CASE e \in {"js", "jsx"} -> "javascript"
       [] e \in {"ts", "tsx"} -> "typescript"
       [] e = "py" -> "python"
       [] e = "java" -> "java"
       [] e = "go" -> "go"
       [] e = "rs" -> "rust"
       [] e = "cs" -> "csharp"
       [] e = "php" -> "php"
       [] e = "rb" -> "ruby"]

\* detectLanguage: the entry of languageMap for the lower-cased text after
\* the last dot of the path
detectLanguage(path) ==
  LET extension == ToLowerCase(SplitPop(path, "."))
  IN IF extension = "" THEN Undefined ELSE RuleLookup(parserLanguageMap, extension)

ParserOptions(enableCaching, maxFileSize) ==
  [enabledLanguages |-> {"javascript", "typescript", "python", "java", "go"},
   enableCaching |-> enableCaching,
   maxFileSize |-> maxFileSize]

DefaultParserMaxFileSize == 1024 * 1024

DefaultParserOptions == ParserOptions(TRUE, DefaultParserMaxFileSize)

ParseResult(ast, language, nodeCount, errs, warns) ==
  [ast |-> ast, language |-> language, nodeCount |-> nodeCount,
   errors |-> errs, warnings |-> warns]

EmptyCache == [key \in {} |-> ParseResult(createEmptyAST, "", 0, <<>>, <<>>)]

\* why parseFile throws before it reaches the cache (NoError when it does
\* not): no language for the path, or a language that is not enabled
LanguageError(opts, path, detectedLanguage) ==
  IF detectedLanguage = Undefined
  THEN PlainError("Error", "Unsupported language for file: " \o path)
  ELSE IF detectedLanguage \notin opts.enabledLanguages
  THEN PlainError("Error", "Language " \o detectedLanguage \o " is not enabled for parsing")
  ELSE NoError

ParseSizeWarnings(opts, path, content) ==
  IF Len(content) > opts.maxFileSize
  THEN <<"File " \o path \o " exceeds maximum size limit, parsing may be slow">>
  ELSE <<>>

MaxParses == 2

ParseArgs(path, content, language) ==
  [path |-> path, content |-> content, language |-> language]

Slashes10 == "//////////"

Slashes100 ==
  Slashes10 \o Slashes10 \o Slashes10 \o Slashes10 \o Slashes10 \o
  Slashes10 \o Slashes10 \o Slashes10 \o Slashes10 \o Slashes10

\* a comment line of a thousand characters, as at the head of a file
Banner ==
  Slashes100 \o Slashes100 \o Slashes100 \o Slashes100 \o Slashes100 \o
  Slashes100 \o Slashes100 \o Slashes100 \o Slashes100 \o Slashes100

\* contents that differ in one name, short ones and ones that differ only
\* after a banner line
ParseContents ==
  {"const Aa = 1;", "const BB = 1;", "const x = 1;",
   Banner \o "\nconst x = 1;", Banner \o "\nlet y = 2;"}

\* the calls made on a parser: one JavaScript path with every content, a
\* Python file, a path without a known language, a call that names the language
ParsePool ==
  {ParseArgs("test.js", content, Undefined) : content \in ParseContents}
    \cup {ParseArgs("src/app.py", "x = 1", Undefined),
          ParseArgs("README", "const x = 1;", Undefined),
          ParseArgs("test.js", "const x = 1;", "typescript")}

ParserOptionsPool ==
  {DefaultParserOptions, ParserOptions(FALSE, DefaultParserMaxFileSize), ParserOptions(TRUE, 12)}

\* what parseFile returns when it does not answer from the cache
FreshResult(opts, path, content, language) ==
  LET detectedLanguage == IF language # Undefined THEN language ELSE detectLanguage(path)
      error == LanguageError(opts, path, detectedLanguage)
      ast == parseByLanguage(content, detectedLanguage)
  IN IF error # NoError
     THEN ParseResult(createEmptyAST, OrElse(language, "javascript"), 0,
                      <<error.message>>, <<>>)
     ELSE ParseResult(ast, detectedLanguage, countNodes(ast), <<>>,
                      ParseSizeWarnings(opts, path, content))

\* does parseFile throw before it reaches the cache
ThrowsBeforeCache(opts, path, language) ==
  LanguageError(opts, path, IF language # Undefined THEN language ELSE detectLanguage(path))
    # NoError

\* getCacheKey and FreshResult, computed once for the calls of the pool
CacheKeyOf == [a \in ParsePool |-> getCacheKey(a.path, a.content)]

FreshResultOf ==
  [o \in ParserOptionsPool |->
     [a \in ParsePool |-> FreshResult(o, a.path, a.content, a.language)]]

\* parseFile(a.path, a.content, a.language) on a parser with this cache: the
\* result, the cache afterwards, and whether the result came from the cache
parseFile(opts, cache, a) ==
  LET cacheKey == CacheKeyOf[a]
      fresh == FreshResultOf[opts][a]
  IN IF ThrowsBeforeCache(opts, a.path, a.language)
     THEN [result |-> fresh, cache |-> cache, cached |-> FALSE]
     ELSE IF opts.enableCaching /\ cacheKey \in DOMAIN cache
     THEN [result |-> cache[cacheKey], cache |-> cache, cached |-> TRUE]
     ELSE [result |-> fresh,
           cache |-> IF opts.enableCaching
                     THEN [key \in DOMAIN cache \cup {cacheKey} |->
                             IF key = cacheKey THEN fresh ELSE cache[key]]
                     ELSE cache,
           cached |-> FALSE]

ParserIdle ==
  /\ parserOptions = DefaultParserOptions
  /\ astCache = EmptyCache
  /\ parseCalls = <<>>

ParserInit ==
  /\ parserOptions \in ParserOptionsPool
  /\ astCache = EmptyCache
  /\ parseCalls = <<>>

\* one call of parseFile
ParseFile ==
  /\ Len(parseCalls) < MaxParses
  /\ \E a \in ParsePool :
       \E out \in {parseFile(parserOptions, astCache, a)} :
         /\ astCache' = out.cache
         /\ parseCalls' = Append(parseCalls,
                                 [args |-> a, cached |-> out.cached, result |-> out.result])
  /\ UNCHANGED parserOptions
  /\ UNCHANGED <<indexerVars, classifierVars, topVars, managerVars>>

(***************************************************************************)
(* InMemoryCacheManager (utils/file-utils.ts): the AST cache               *)
(***************************************************************************)

MaxCacheCalls == 3

\* a Date: its time value, or an invalid date (whose getTime() is NaN)
DateOf(time) == [valid |-> TRUE, time |-> time]

InvalidDate == [valid |-> FALSE, time |-> 0]

\* a.getTime() === b.getTime(): NaN equals nothing
SameTime(a, b) == a.valid /\ b.valid /\ a.time = b.time

\* the null that getCachedAST returns on a miss
Null == [null |-> TRUE]

CachePaths == {"src/a.ts", "src/b.ts"}

CacheTimes == {DateOf(1), DateOf(2), InvalidDate}

CacheASTs ==
  {parseByLanguage("const x = 1;", "typescript"), parseByLanguage("let y = 2;", "typescript")}

CacheEntry(ast, lastModified) == [ast |-> ast, lastModified |-> lastModified]

EmptyAstCache == [p \in {} |-> CacheEntry(Null, InvalidDate)]

\* a lookup that does not compare modification times
getCachedASTIgnoringTime(cache, filePath, lastModified) ==
  IF filePath \in DOMAIN cache THEN cache[filePath].ast ELSE Null

\* getCachedAST: the entry stored under the path, if its modification time
\* is the one asked for
getCachedAST(cache, filePath, lastModified) ==
  IF filePath \in DOMAIN cache /\ SameTime(cache[filePath].lastModified, lastModified)
  THEN cache[filePath].ast
  ELSE Null

\* setCachedAST: this.astCache.set(filePath, {ast, lastModified, timestamp})
\* (the timestamp, which the AST cache never reads, is left out)
setCachedAST(cache, filePath, ast, lastModified) ==
  [p \in DOMAIN cache \cup {filePath} |->
     IF p = filePath THEN CacheEntry(ast, lastModified) ELSE cache[p]]

CacheCall(op, path, time, ast) == [op |-> op, path |-> path, time |-> time, ast |-> ast]

ManagerIdle ==
  /\ managerAstCache = EmptyAstCache
  /\ stats = [totalRequests |-> 0, totalHits |-> 0]
  /\ cacheCalls = <<>>

\* one call of setCachedAST
SetCachedAST ==
  /\ Len(cacheCalls) < MaxCacheCalls
  /\ \E path \in CachePaths, time \in CacheTimes, ast \in CacheASTs :
       /\ managerAstCache' = setCachedAST(managerAstCache, path, ast, time)
       /\ cacheCalls' = Append(cacheCalls, CacheCall("set", path, time, ast))
  /\ UNCHANGED stats
  /\ UNCHANGED <<indexerVars, classifierVars, topVars, parserVars>>

\* one call of getCachedAST; the call records what it returned
GetCachedAST ==
  /\ Len(cacheCalls) < MaxCacheCalls
  /\ \E path \in CachePaths, time \in CacheTimes :
       \E returned \in {getCachedAST(managerAstCache, path, time)} :
         /\ stats' = [totalRequests |-> stats.totalRequests + 1,
                      totalHits |-> stats.totalHits + (IF returned # Null THEN 1 ELSE 0)]
         /\ cacheCalls' = Append(cacheCalls, CacheCall("get", path, time, returned))
  /\ UNCHANGED managerAstCache
  /\ UNCHANGED <<indexerVars, classifierVars, topVars, parserVars>>

(***************************************************************************)
(* Specifications                                                          *)
(***************************************************************************)

HelpersIdle == TopIdle /\ ParserIdle /\ ManagerIdle

Init == IndexerInit /\ ClassifierIdle /\ HelpersIdle

Next == Validate \/ ProcessFile \/ Finish

\* runs of indexCodebase
Spec == Init /\ [][Next]_vars

InitClassify == IndexerIdle /\ ClassifierInit /\ HelpersIdle

NextClassify == ClassifyFile

\* calls of classifyFile on one classifier
SpecClassify == InitClassify /\ [][NextClassify]_vars

InitTop == IndexerIdle /\ ClassifierIdle /\ TopInit /\ ParserIdle /\ ManagerIdle

NextTop == GetTopPriorityFiles

\* calls of the classifier's getTopPriorityFiles
SpecTop == InitTop /\ [][NextTop]_vars

InitParse == IndexerIdle /\ ClassifierIdle /\ TopIdle /\ ParserInit /\ ManagerIdle

NextParse == ParseFile

\* calls of parseFile on one ASTParser
SpecParse == InitParse /\ [][NextParse]_vars

InitCache == IndexerIdle /\ ClassifierIdle /\ TopIdle /\ ParserIdle /\ ManagerIdle

NextCache == SetCachedAST \/ GetCachedAST

\* calls of setCachedAST and getCachedAST on one InMemoryCacheManager
SpecCache == InitCache /\ [][NextCache]_vars

(***************************************************************************)
(* Properties of indexCodebase                                             *)
(***************************************************************************)

\* the call was made with a non-empty file list
NonEmptyInput == codebaseInput.hasFiles /\ given # <<>>

\* the call has settled, one way or the other
Settled == pc \in {"done", "rejected"}

\* the entry at position i of the caller's list passes the validity filter
ValidInput(i) == given[i].path # "" /\ given[i].size >= 0

\* the input positions that the loop has handled so far
HandledRefs == {filteredFiles[j] : j \in 1..(k - 1)}

\* the input positions that have an entry in fileIndex
IndexedRefs == {fileIndex[i].ref : i \in 1..Len(fileIndex)}

\* the file the loop is about to handle
CurrentFile == codebaseInput.files[filteredFiles[k]]

AtLoopStep == pc = "loop" /\ k <= Len(filteredFiles)

\* C1: the returned fileIndex is ordered by score, non-increasing, and two
\* entries of equal score keep the order they had in the input list
C1_SortedStable ==
  pc = "done" =>
    \A i, j \in 1..Len(fileIndex) :
      i < j =>
        /\ fileIndex[i].importance.score >= fileIndex[j].importance.score
        /\ (fileIndex[i].importance.score = fileIndex[j].importance.score
              => fileIndex[i].ref < fileIndex[j].ref)

\* a returned index in which the sort moved a later input before an earlier
\* one and which holds two entries of equal score
C1_Witness ==
  /\ pc = "done"
  /\ \E i, j \in 1..Len(fileIndex) :
       i < j /\ fileIndex[i].ref > fileIndex[j].ref
  /\ \E i, j \in 1..Len(fileIndex) :
       i < j /\ fileIndex[i].importance.score = fileIndex[j].importance.score

\* the loop run to its end (or to its break) from position i of refs
RECURSIVE RunLoop(_, _, _, _, _, _)
RunLoop(opts, f, files, refs, i, st) ==
  IF i > Len(refs) \/ st.break THEN st
  ELSE RunLoop(opts, f, files, refs, i + 1,
               LoopBody(opts, f, files[refs[i]], refs[i], st))

\* the file list with every valid path normalized, as filterFiles leaves it
\* when no call throws
NormalizedGiven == FilesAfterFilter(NoFault, given)

\* does some collaborator call throw while entry i is handled: in
\* filterFiles, in the ignore check, or while its index entry is built
RaisesWhileHandling(i) ==
  /\ ValidInput(i)
  /\ \/ Raises(fault, "normalizePath", given[i].path)
     \/ Raises(fault, "shouldIgnoreFile", NormalizedGiven[i].path)
     \/ /\ ~IndexerShouldIgnore(options, NormalizedGiven[i].path)
        /\ ~ExceedsMaxSize(options, NormalizedGiven[i])
        /\ CreateEntryRaises(fault, options, NormalizedGiven[i])

\* the run of the loop, by a DefaultFileUtils, over the input without the
\* entries in skipped
RunWithout(skipped) ==
  RunLoop(options, NoFault, NormalizedGiven,
          SelectSeq(filterFiles(given), LAMBDA r : r \notin skipped), 1,
          LoopState(<<>>, 0, 0, <<>>, FilterWarnings(filterFiles(given)), FALSE))

\* the error strings that name the path of entry i
ErrorsNaming(i) ==
  {e \in 1..Len(errors) : Includes(errors[e], NormalizedGiven[i].path)}

\* C2 (as claimed): whichever collaborator call throws while an entry is
\* handled, the call resolves, the entry is absent from fileIndex, one error
\* string names its path, and the other entries come out as in a run without it
C2_PerFileFailureIsolated ==
  (NonEmptyInput /\ Settled) =>
    /\ pc = "done"
    /\ \A i \in 1..Len(given) :
         (RaisesWhileHandling(i) /\ i \in HandledRefs) =>
           /\ i \notin IndexedRefs
           /\ Cardinality(ErrorsNaming(i))
                = Cardinality({j \in HandledRefs : RaisesWhileHandling(j)
                                 /\ NormalizedGiven[j].path = NormalizedGiven[i].path})
    /\ Len(errors) = Cardinality({i \in HandledRefs : RaisesWhileHandling(i)})
    /\ \E ref \in {RunWithout({i \in 1..Len(given) : RaisesWhileHandling(i)})} :
         /\ fileIndex = SortByScoreDescending(ref.fileIndex)
         /\ filesIgnored = ref.filesIgnored
         /\ warnings = ref.warnings

\* C3: an empty file list is rejected with a FILE_INDEXING_FAILED analysis
\* error that is not recoverable and whose message holds "No files provided
\* for indexing"; nothing is returned
C3_EmptyInputRejected ==
  (codebaseInput.hasFiles /\ given = <<>> /\ pc # "idle") =>
    /\ pc = "rejected"
    /\ thrown.name = "InfrastructureError"
    /\ thrown.code = "FILE_INDEXING_FAILED"
    /\ thrown.category = "analysis"
    /\ thrown.recoverable = FALSE
    /\ Includes(thrown.message, "No files provided for indexing")
    /\ result = NoResult
    /\ fileIndex = <<>>

\* the call on an empty list has been rejected
C3_Witness ==
  codebaseInput.hasFiles /\ given = <<>> /\ pc = "rejected" /\ thrown # NoError

\* the input positions that pass the validity, ignore and size checks and
\* whose handling throws nowhere, in input order
PassingRefs ==
  SelectSeq(filterFiles(given),
            LAMBDA i : /\ ~RaisesWhileHandling(i)
                       /\ ~IndexerShouldIgnore(options, NormalizedGiven[i].path)
                       /\ ~ExceedsMaxSize(options, NormalizedGiven[i]))

\* C4 (as claimed): fileIndex holds at most maxFiles entries, namely the first
\* min(maxFiles, n) of the n entries that pass the checks, for every maxFiles >= 0
C4_MaxFilesCap ==
  pc = "done" =>
    /\ Len(fileIndex) <= options.maxFiles
    /\ IndexedRefs =
         {PassingRefs[j] : j \in 1..MathMin(options.maxFiles, Len(PassingRefs))}

\* C6: every entry of a returned fileIndex has a score within [0, 200]
C6_IndexScoresInRange ==
  pc = "done" =>
    \A i \in 1..Len(fileIndex) :
      fileIndex[i].importance.score >= 0 /\ fileIndex[i].importance.score <= 200

\* a returned index with an entry whose name matches three scoring rules at
\* once (configuration, infrastructure and schema: 180)
C6_Witness ==
  /\ pc = "done"
  /\ \E i \in 1..Len(fileIndex) :
       /\ Len(fileIndex[i].importance.reasons) >= 3
       /\ fileIndex[i].importance.score >= 180

\* C7: in the returned diagnostics, filesIndexed + filesIgnored is at most
\* totalFilesScanned (the input length); filesIndexed is the index length
C7_CountsBounded ==
  pc = "done" =>
    /\ result.totalFilesScanned = Len(given)
    /\ result.filesIndexed = Len(fileIndex)
    /\ result.filesIndexed + result.filesIgnored <= result.totalFilesScanned

\* a run that indexed a file and skipped an oversized one
C7_Witness ==
  /\ pc = "done"
  /\ result.filesIndexed > 0
  /\ \E w \in 1..Len(result.warnings) :
       Includes(result.warnings[w], "exceeds maximum size limit")

\* every entry of the caller's list passes the validity filter
AllInputsValid == \A i \in 1..Len(given) : ValidInput(i)

\* the filtered entries the loop never reached because it stopped at maxFiles
UnreachedRefs == {filteredFiles[j] : j \in k..Len(filteredFiles)}

\* C8 (as claimed): when every input entry has a non-empty path and a
\* non-negative size, filesIndexed + filesIgnored equals totalFilesScanned
C8_EqualWhenAllValid ==
  (pc = "done" /\ AllInputsValid) =>
    result.filesIndexed + result.filesIgnored = result.totalFilesScanned

\* C8 (amended): every input entry is accounted for exactly once, as indexed,
\* as ignored, as dropped by the validity filter, as an error, or as left
\* unhandled after the maxFiles stop; so the sum is short of the total only
\* by the last three
C8_Accounting ==
  pc = "done" =>
    /\ result.filesIndexed + result.filesIgnored
         + Cardinality({i \in 1..Len(given) : ~ValidInput(i)})
         + Len(result.errors)
         + Cardinality(UnreachedRefs)
       = result.totalFilesScanned
    /\ (AllInputsValid /\ result.errors = <<>> /\ UnreachedRefs = {})
         => result.filesIndexed + result.filesIgnored = result.totalFilesScanned

\* a run over valid entries only whose sum is short of the total, and in
\* which an entry was ignored
C8_Witness ==
  /\ pc = "done"
  /\ AllInputsValid
  /\ result.filesIgnored > 0
  /\ result.filesIndexed + result.filesIgnored < result.totalFilesScanned

\* the path lies under node_modules/
UnderNodeModules(path) == Includes(path, "node_modules/")

\* the valid input entries under node_modules/
NodeModulesInputs ==
  {i \in 1..Len(given) : ValidInput(i) /\ UnderNodeModules(NormalizedGiven[i].path)}

\* C9 (as claimed): every valid entry under node_modules/ is absent from
\* fileIndex and adds one to filesIgnored, wherever it stands in the input
C9_NodeModulesAlwaysCounted ==
  (pc = "done" /\ fault = NoFault) =>
    /\ IndexedRefs \cap NodeModulesInputs = {}
    /\ result.filesIgnored >= Cardinality(NodeModulesInputs)

\* C9 (amended): with the default ignore rules no entry under node_modules/
\* is ever in fileIndex, and each such entry that the loop handles adds one to
\* filesIgnored and nothing to fileIndex, errors or warnings; entries after
\* the maxFiles stop are not handled and not counted
C9_NodeModulesIgnoredWhenHandled ==
  /\ [](IndexedRefs \cap NodeModulesInputs = {})
  /\ [][(AtLoopStep /\ fault = NoFault /\ UnderNodeModules(CurrentFile.path)) =>
          /\ filesIgnored' = filesIgnored + 1
          /\ fileIndex' = fileIndex
          /\ errors' = errors
          /\ warnings' = warnings]_vars
  /\ []((pc = "done" /\ fault = NoFault) =>
          result.filesIgnored >= Cardinality(NodeModulesInputs \ UnreachedRefs))

\* a run that indexed a file, handled an entry under node_modules/ and left
\* another one unhandled after the maxFiles stop
C9_Witness ==
  /\ pc = "done"
  /\ fault = NoFault
  /\ result.filesIndexed > 0
  /\ NodeModulesInputs \cap HandledRefs # {}
  /\ NodeModulesInputs \cap UnreachedRefs # {}

\* the size warnings, as positions in a warnings list
SizeWarnings(ws) == {w \in 1..Len(ws) : Includes(ws[w], "exceeds maximum size limit")}

\* C10: a handled entry that matches no ignore rule and is larger than
\* maxFileSize stays out of fileIndex, adds one warning naming its path and
\* size, and adds one to filesIgnored; an entry of exactly maxFileSize is not
\* skipped; an entry that matches an ignore rule adds no warning
C10_SizeBound ==
  [][(AtLoopStep /\ ~Raises(fault, "shouldIgnoreFile", CurrentFile.path)) =>
       /\ (~IndexerShouldIgnore(options, CurrentFile.path)
             /\ CurrentFile.size > options.maxFileSize) =>
            /\ fileIndex' = fileIndex
            /\ Len(warnings') = Len(warnings) + 1
            /\ SubSeq(warnings', 1, Len(warnings)) = warnings
            /\ Includes(warnings'[Len(warnings')], "exceeds maximum size limit")
            /\ Includes(warnings'[Len(warnings')], "File " \o CurrentFile.path \o " ")
            /\ Includes(warnings'[Len(warnings')],
                        "(" \o ToString(CurrentFile.size) \o " bytes)")
            /\ filesIgnored' = filesIgnored + 1
            /\ errors' = errors
       /\ (~IndexerShouldIgnore(options, CurrentFile.path)
             /\ CurrentFile.size = options.maxFileSize) =>
            /\ filesIgnored' = filesIgnored
            /\ SizeWarnings(warnings') = SizeWarnings(warnings)
            /\ \/ Len(fileIndex') = Len(fileIndex) + 1
               \/ Len(errors') = Len(errors) + 1
       /\ IndexerShouldIgnore(options, CurrentFile.path) =>
            /\ warnings' = warnings
            /\ fileIndex' = fileIndex]_vars

\* a run that skipped an oversized entry with one warning, indexed an entry
\* of exactly maxFileSize, and ignored an oversized entry without a warning
C10_Witness ==
  /\ pc = "done"
  /\ Cardinality(SizeWarnings(warnings)) = 1
  /\ \E i \in IndexedRefs : given[i].size = options.maxFileSize
  /\ \E i \in HandledRefs :
       /\ IndexerShouldIgnore(options, NormalizedGiven[i].path)
       /\ given[i].size > options.maxFileSize

\* the input positions that pass the validity filter, in input order
ValidRefs == SelectSeq([i \in 1..Len(given) |-> i], ValidInput)

\* what the loop alone produces over the valid entries
LoopOverValid ==
  RunLoop(options, fault, codebaseInput.files, ValidRefs, 1,
          LoopState(<<>>, 0, 0, <<>>, <<>>, FALSE))

SomeInputInvalid == \E i \in 1..Len(given) : ~ValidInput(i)

\* C11 (as claimed): an entry with an empty path or a negative size is never
\* in fileIndex, is not counted in filesIgnored, and leaves no string in
\* errors or warnings: they hold only what handling the valid entries put there
C11_DroppedSilently ==
  (pc = "done" /\ SomeInputInvalid) =>
    /\ \A i \in 1..Len(given) : ~ValidInput(i) => i \notin IndexedRefs
    /\ \E r \in {LoopOverValid} :
         /\ result.filesIgnored = r.filesIgnored
         /\ result.errors = r.errors
         /\ result.warnings = r.warnings

\* C11 (amended): as above, except that when no entry of the input is valid
\* the result carries the one warning that nothing remained after filtering
C11_DroppedWithOneWarning ==
  (pc = "done" /\ SomeInputInvalid) =>
    /\ \A i \in 1..Len(given) : ~ValidInput(i) => i \notin IndexedRefs
    /\ \E r \in {LoopOverValid} :
         /\ result.filesIgnored = r.filesIgnored
         /\ result.errors = r.errors
         /\ result.warnings =
              (IF ValidRefs = <<>> THEN <<"No files remaining after filtering">>
               ELSE <<>>) \o r.warnings

\* a returned result for an input that holds an entry with an empty path, one
\* with a negative size, and a valid entry that was counted as ignored
C11_Witness ==
  /\ pc = "done"
  /\ \E i \in 1..Len(given) : given[i].path = ""
  /\ \E i \in 1..Len(given) : given[i].path # "" /\ given[i].size < 0
  /\ result.filesIgnored = 1
  /\ result.warnings = <<>>

\* C20 (as claimed): the type of every fileIndex entry is the custom rule
\* configured for its normalized path if there is one, otherwise the declared
\* type if present, otherwise the detected type
C20_TypeByPrecedence ==
  \A i \in 1..Len(fileIndex) :
    \E declared \in {given[fileIndex[i].ref].type},
       path \in {normalizePath(given[fileIndex[i].ref].path)} :
      fileIndex[i].type =
        IF path \in DOMAIN options.customFileTypeRules
        THEN options.customFileTypeRules[path]
        ELSE IF declared # Undefined THEN declared
        ELSE getFileType(path)

\* the paths of the entries of an index
IndexPaths(index) == {index[i].path : i \in 1..Len(index)}

\* the paths listed anywhere in a priority file map
PriorityPaths(map) ==
  UNION {{list[i] : i \in 1..Len(list)} :
           list \in {map.packageFiles, map.configFiles, map.entryPoints,
                     map.schemas, map.dockerFiles, map.cicdFiles}}

\* C21: every path in each of the six priorityFiles lists is the path of some
\* entry of the returned fileIndex
C21_PriorityFilesIndexed ==
  pc = "done" => PriorityPaths(result.priorityFiles) \subseteq IndexPaths(fileIndex)

\* a returned index with a path in upper and lower case in one of the lists,
\* paths in two different lists, and an entry that is in no list
C21_Witness ==
  /\ pc = "done"
  /\ \E p \in PriorityPaths(result.priorityFiles) : ToLowerCase(p) # p
  /\ result.priorityFiles.packageFiles # <<>>
  /\ result.priorityFiles.configFiles # <<>>
  /\ IndexPaths(fileIndex) \ PriorityPaths(result.priorityFiles) # {}

\* C22: statistics.fileTypeDistribution of a returned index has exactly the
\* eight keys package, config, source, test, documentation, asset, build and
\* schema, each with a count that is not negative
C22_EightTypeKeys ==
  pc = "done" =>
    /\ DOMAIN result.statistics.fileTypeDistribution = FileTypes
    /\ \A t \in FileTypes : result.statistics.fileTypeDistribution[t] >= 0

\* C24: for every index returned by indexCodebase and every limit, the
\* indexer's getTopPriorityFiles returns the same sequence of entries as the
\* classifier's getTopPriorityFiles on index.fileIndex
C24_SameTopPriorityFiles ==
  pc = "done" =>
    \A limit \in TopLimits :
      IndexerGetTopPriorityFiles(fileIndex, limit) = getTopPriorityFiles(fileIndex, limit)

\* a returned index in which the classifier's sort has ties to keep in order
\* and the filter has an entry to drop
C24_Witness ==
  /\ pc = "done"
  /\ \E i, j \in 1..Len(fileIndex) :
       /\ i < j
       /\ IsHighPriority(fileIndex[i]) /\ IsHighPriority(fileIndex[j])
       /\ fileIndex[i].importance.score = fileIndex[j].importance.score
  /\ \E i \in 1..Len(fileIndex) : ~IsHighPriority(fileIndex[i])
  /\ Len(IndexerGetTopPriorityFiles(fileIndex, 1)) = 1

\* the "Reached maximum file limit" warnings among a list of warnings
MaxFilesWarnings(ws) == {w \in 1..Len(ws) : Includes(ws[w], "Reached maximum file limit")}

\* C26: in every run the "Reached maximum file limit" warning is emitted at
\* most once, and exactly in the step in which fileIndex reaches maxFiles
\* entries; once it is emitted no later entry is processed: fileIndex,
\* filesIgnored, errors and warnings stay as they are
C26_MaxFilesWarning ==
  [][/\ Cardinality(MaxFilesWarnings(warnings')) <= 1
     /\ (MaxFilesWarnings(warnings') # MaxFilesWarnings(warnings))
          <=> (Len(fileIndex') # Len(fileIndex) /\ Len(fileIndex') = options.maxFiles)
     /\ MaxFilesWarnings(warnings) # {} =>
          /\ Len(fileIndex') = Len(fileIndex)
          /\ UNCHANGED <<filesIgnored, errors, warnings>>]_vars

\* C27: every fileIndex entry has the category the thresholds assign to its
\* score: critical from 80, important from 50, normal from 20, ignore below
C27_CategoryFollowsScore ==
  \A i \in 1..Len(fileIndex) :
    LET score == fileIndex[i].importance.score
        category == fileIndex[i].importance.category
    IN /\ category = "critical" <=> score >= 80
       /\ category = "important" <=> (50 <= score /\ score < 80)
       /\ category = "normal" <=> (20 <= score /\ score < 50)
       /\ category = "ignore" <=> score < 20

\* a returned index with an entry whose score sits on a threshold
C27_Witness ==
  /\ pc = "done"
  /\ \E i \in 1..Len(fileIndex) :
       /\ fileIndex[i].importance.score = 50
       /\ fileIndex[i].importance.category = "important"

\* C28: indexCodebase leaves the caller's input unchanged: after the call,
\* resolved or rejected, every entry of input.files has the path, size and
\* type it had before the call
C28_InputUnchanged ==
  pc \in {"done", "rejected"} => codebaseInput.files = given

\* C30: when input.files is absent, indexCodebase rejects with the same
\* structured error as for an empty list: an InfrastructureError with code
\* FILE_INDEXING_FAILED and category analysis
C30_AbsentFilesStructuredError ==
  (pc = "rejected" /\ ~codebaseInput.hasFiles) =>
    /\ thrown = WrapIndexingFailure(NoFilesError)
    /\ thrown.name = "InfrastructureError"
    /\ thrown.code = FILE_INDEXING_FAILED
    /\ thrown.category = "analysis"

(***************************************************************************)
(* Properties of classifyFile                                              *)
(***************************************************************************)

\* C5: whatever the path, content, declared type and configuration (custom
\* rules with extreme adjustments included), the returned score is in [0, 200]
C5_ClassifierScoreClamped ==
  \A c \in 1..Len(classifications) :
    /\ classifications[c].importance.score >= 0
    /\ classifications[c].importance.score <= 200

\* a call whose assembled score lay above 200 because of a custom rule
C5_Witness ==
  /\ classifications # <<>>
  /\ classifications[1].importance.score = 200
  /\ \E r \in 1..Len(classifierOptions.customScoringRules) :
       classifierOptions.customScoringRules[r].scoreAdjustment >= 1000
  /\ RawScore(classifierOptions, [r \in DOMAIN ruleLastIndexes |-> 0], classifyArgs.path,
              classifyArgs.content, classifyArgs.type,
              classifications[1].characteristics) > 1000

\* C12 (as claimed): two successive classifyFile calls on one classifier with
\* the same path, content and type return identical classifications, for
\* every configuration, custom rules given as regular expressions included
C12_ClassifyIdempotent ==
  Len(classifications) >= 2 => classifications[1] = classifications[2]


\* C13: in every returned classification the category is the one the
\* thresholds assign to the returned score: critical iff score >= 100,
\* important iff 60 <= score < 100, normal iff 20 <= score < 60, ignore iff
\* score < 20
C13_CategoryMatchesScore ==
  \A c \in 1..Len(classifications) :
    \E imp \in {classifications[c].importance} :
      /\ imp.category = "critical" <=> imp.score >= 100
      /\ imp.category = "important" <=> (60 <= imp.score /\ imp.score < 100)
      /\ imp.category = "normal" <=> (20 <= imp.score /\ imp.score < 60)
      /\ imp.category = "ignore" <=> imp.score < 20

\* a call whose assembled score was negative: the category was chosen from
\* that score, the returned score is the clamped one
C13_Witness ==
  /\ classifications # <<>>
  /\ classifications[1].importance.score = 0
  /\ classifications[1].importance.category = "ignore"
  /\ RawScore(classifierOptions, [r \in DOMAIN ruleLastIndexes |-> 0], classifyArgs.path,
              classifyArgs.content, classifyArgs.type,
              classifications[1].characteristics) < 0


\* the order in which the architectural roles are tried
RoleOrder ==
  <<"infrastructure", "deployment", "build-system", "configuration", "testing",
    "documentation", "api-interface", "data-access", "security", "monitoring",
    "utility">>

\* the predicate of each role of the chain, on the arguments of the call
RolePredicate(role, args) ==
  LET path == args.path
      fileName == FileNameOf(path)
      named(parts) == \E part \in parts : Includes(fileName, part)
      under(dirs) == \E dir \in dirs : Includes(path, dir)
  IN CASE role = "infrastructure" -> isInfrastructure(fileName, path)
       [] role = "deployment" -> named({"deploy"}) \/ under({"/deploy/"})
       [] role = "build-system" -> named({"build", "webpack", "rollup"})
       [] role = "configuration" -> isConfiguration(fileName, args.type)
       [] role = "testing" -> isTest(fileName, path)
       [] role = "documentation" -> isDocumentation(fileName, path, args.type)
       [] role = "api-interface" ->
            named({"api"}) \/ under({"/api/"}) \/ isSchema(fileName, path)
       [] role = "data-access" ->
            named({"model", "repository", "dao"}) \/ under({"/models/", "/data/"})
       [] role = "security" -> named({"auth", "security", "crypto"})
       [] role = "monitoring" -> named({"log", "monitor", "metric"})
       [] role = "utility" -> named({"util", "helper"}) \/ under({"/utils/"})

\* the positions of RoleOrder whose predicate matches the arguments
MatchingRoles(args) == {r \in 1..Len(RoleOrder) : RolePredicate(RoleOrder[r], args)}

ExtensionOf(path) == ToLowerCase(SplitPop(FileNameOf(path), "."))

\* C15 (as claimed): a non-test file with a recognized source extension that
\* matches no role of the chain, classified with path and content but without
\* a declared type, has the role core-business-logic
C15_UndeclaredSourceIsCoreLogic ==
  \A c \in 1..Len(classifications) :
    (/\ classifyArgs.type = Undefined
     /\ Truthy(classifyArgs.content)
     /\ ExtensionOf(classifyArgs.path) \in sourceExtensions
     /\ MatchingRoles(classifyArgs) = {})
      => classifications[c].characteristics.architecturalRole = "core-business-logic"


\* a fresh classifier: every RegExp of its rules has lastIndex 0
FreshLastIndexes == [r \in DOMAIN ruleLastIndexes |-> 0]

\* the score a fresh classifier with the current options returns for path,
\* with the content and declared type of the current call
ScoreOfPath(path) ==
  classifyFile(classifierOptions, FreshLastIndexes, path, classifyArgs.content,
               classifyArgs.type).importance.score

\* the first call was made on path
FirstCallOn(path) == classifications # <<>> /\ classifyArgs.path = path

\* every custom rule matches both paths or neither
RulesTreatAlike(p, q) ==
  \A r \in 1..Len(classifierOptions.customScoringRules) :
    RuleMatches(classifierOptions.customScoringRules[r], 0, p)
      <=> RuleMatches(classifierOptions.customScoringRules[r], 0, q)

\* C16 (as claimed): for the same configuration and content, src/utils.test.ts
\* scores strictly lower than src/utils.ts, custom rules included
C16_TestScoresStrictlyLower ==
  (FirstCallOn("src/utils.test.ts") /\ classifyArgs.type = Undefined) =>
    classifications[1].importance.score < ScoreOfPath("src/utils.ts")

\* C16 (amended): when every custom rule matches both paths or neither, the
\* test file scores lower than or equal to the other, whatever the declared
\* type, and strictly lower unless both scores sit at the same end of the
\* clamp; without rules and without a declared type it is strictly lower
C16_TestScoresLowerUpToClamp ==
  (FirstCallOn("src/utils.test.ts")
   /\ RulesTreatAlike("src/utils.test.ts", "src/utils.ts")) =>
    \E test \in {classifications[1].importance.score},
       plain \in {ScoreOfPath("src/utils.ts")} :
      /\ test <= plain
      /\ test = plain => plain \in {0, 200}
      /\ (classifierOptions.customScoringRules = <<>> /\ classifyArgs.type = Undefined)
           => test < plain

\* a call on src/utils.test.ts that came out below src/utils.ts by the test
\* penalty and the lower role bonus, with a rule that matches both paths
C16_Witness ==
  /\ FirstCallOn("src/utils.test.ts")
  /\ classifierOptions.customScoringRules # <<>>
  /\ RulesTreatAlike("src/utils.test.ts", "src/utils.ts")
  /\ classifications[1].characteristics.isTest
  /\ classifications[1].importance.score + 25 = ScoreOfPath("src/utils.ts")


\* isInfrastructure is the only flag set, the role is infrastructure
OnlyInfrastructure(ch) ==
  /\ ch.isInfrastructure
  /\ ch.architecturalRole = "infrastructure"
  /\ ~ch.isEntryPoint /\ ~ch.isConfiguration /\ ~ch.isPackageDefinition
  /\ ~ch.isSchema /\ ~ch.isTest /\ ~ch.isDocumentation /\ ~ch.isGenerated
  /\ ~ch.hasComplexLogic /\ ~ch.hasExternalDependencies /\ ~ch.isPublicInterface

\* C17 (as claimed): with the default options, a file whose only matching
\* characteristic is isInfrastructure and whose extension is not a source
\* extension (Dockerfile) is categorised important
C17_InfrastructureIsImportant ==
  (/\ classifications # <<>>
   /\ classifierOptions = DefaultClassifierOptions
   /\ OnlyInfrastructure(classifications[1].characteristics)
   /\ ExtensionOf(classifyArgs.path) \notin sourceExtensions)
    => classifications[1].importance.category = "important"


\* the score a fresh classifier returns for the current call when only the
\* project type of its options is replaced by the default, web-app
ScoreUnderWebApp ==
  classifyFile([classifierOptions EXCEPT !.projectType = "web-app"], FreshLastIndexes,
               classifyArgs.path, classifyArgs.content, classifyArgs.type).importance.score

\* one of the three project-type adjustments applies to the first call
ProjectBoostApplies ==
  /\ classifications # <<>>
  /\ \E ch \in {classifications[1].characteristics} :
       \/ classifierOptions.projectType = "api-service"
            /\ ch.architecturalRole = "api-interface"
       \/ classifierOptions.projectType = "library" /\ ch.isPublicInterface
       \/ classifierOptions.projectType = "microservice" /\ ch.isInfrastructure

PatternMatches(rule, path) ==
  IF rule.regex THEN LineTest(rule.re, path) ELSE Includes(path, rule.text)

\* the sum of scoreAdjustment over the rules at the positions in S
RECURSIVE SumOfAdjustments(_, _)
SumOfAdjustments(rules, S) ==
  IF S = {} THEN 0
  ELSE LET r == CHOOSE x \in S : TRUE
       IN rules[r].scoreAdjustment + SumOfAdjustments(rules, S \ {r})

\* the sum over every configured rule whose pattern matches the path
MatchingRulesSum(rules, path) ==
  SumOfAdjustments(rules, {r \in 1..Len(rules) : PatternMatches(rules[r], path)})

\* the score assembled for the current call without the custom rules
RawScoreWithoutRules ==
  RawScore([classifierOptions EXCEPT !.customScoringRules = <<>>], <<>>,
           classifyArgs.path, classifyArgs.content, classifyArgs.type,
           analyzeFileCharacteristics(classifyArgs.path, classifyArgs.content,
                                      classifyArgs.type))

\* C19 (as claimed): in every call the custom rules contribute the sum of
\* scoreAdjustment over all rules whose pattern matches the path, so the
\* returned score is the clamp of the rest of the score plus that sum, and
\* the contribution is the same for every permutation of the rule list
C19_RulesSumOverMatches ==
  \E rules \in {classifierOptions.customScoringRules} :
    /\ \A c \in 1..Len(classifications) :
         classifications[c].importance.score =
           ClampScore(RawScoreWithoutRules + MatchingRulesSum(rules, classifyArgs.path))
    /\ \A perm \in Permutations(1..Len(rules)) :
         applyCustomScoringRules(
           [classifierOptions EXCEPT
              !.customScoringRules = [i \in 1..Len(rules) |-> rules[perm[i]]]],
           [i \in 1..Len(rules) |-> ruleLastIndexes[perm[i]]], classifyArgs.path)
         = applyCustomScoringRules(classifierOptions, ruleLastIndexes, classifyArgs.path)

(***************************************************************************)
(* Properties of getTopPriorityFiles                                       *)
(***************************************************************************)

\* how often an entry occurs in a list
Occurs(list, e) == Cardinality({i \in 1..Len(list) : list[i] = e})

\* the critical and important entries of the list passed in
Eligible == SelectSeq(topGiven, IsHighPriority)

\* C23: for every list and every limit >= 0 the classifier's
\* getTopPriorityFiles returns at most limit entries, all critical or
\* important, in non-increasing score order, being the highest-scored such
\* entries of the list; the list passed in keeps its length, order and elements
C23_TopPriorityFiles ==
  (topResult.returned /\ topLimit >= 0) =>
    LET top == topResult.files IN
    /\ Len(top) = MathMin(topLimit, Len(Eligible))
    /\ \A i \in 1..Len(top) : IsHighPriority(top[i])
    /\ \A i, j \in 1..Len(top) :
         i < j => top[i].importance.score >= top[j].importance.score
    /\ \A e \in TopEntryPool :
         /\ Occurs(top, e) <= Occurs(Eligible, e)
         /\ Occurs(top, e) < Occurs(Eligible, e) =>
              \A i \in 1..Len(top) : top[i].importance.score >= e.importance.score
    /\ topFiles = topGiven

\* a call that had to reorder and to cut: three eligible entries given in
\* rising score order, a limit of two
C23_Witness ==
  /\ topResult.returned
  /\ topLimit = 2
  /\ Len(Eligible) = 3
  /\ Eligible[1].importance.score < Eligible[2].importance.score
  /\ Eligible[2].importance.score < Eligible[3].importance.score
  /\ Len(topResult.files) = 2

(***************************************************************************)
(* Properties of the ASTParser cache                                       *)
(***************************************************************************)

\* the calls that got as far as the cache
ReachedCache(j) ==
  ~ThrowsBeforeCache(parserOptions, parseCalls[j].args.path, parseCalls[j].args.language)

\* C25: with caching enabled, two parseFile calls whose contents differ never
\* share a cache entry, and a call returns a cached result only if that result
\* was produced by an earlier call with the same path and the same content
C25_CacheHitsSameContent ==
  parserOptions.enableCaching =>
    /\ \A i, j \in 1..Len(parseCalls) :
         (/\ ReachedCache(i) /\ ReachedCache(j)
          /\ parseCalls[i].args.content # parseCalls[j].args.content)
           => CacheKeyOf[parseCalls[i].args] # CacheKeyOf[parseCalls[j].args]
    /\ \A j \in 1..Len(parseCalls) :
         parseCalls[j].cached =>
           \E i \in 1..(j - 1) :
             /\ ~parseCalls[i].cached
             /\ parseCalls[i].args.path = parseCalls[j].args.path
             /\ parseCalls[i].args.content = parseCalls[j].args.content
             /\ parseCalls[i].result = parseCalls[j].result

(***************************************************************************)
(* Properties of the InMemoryCacheManager AST cache                        *)
(***************************************************************************)

\* the setCachedAST calls before call j that stored under the path and the
\* modification time of call j
StoresFor(j) ==
  {i \in 1..(j - 1) : /\ cacheCalls[i].op = "set"
                      /\ cacheCalls[i].path = cacheCalls[j].path
                      /\ cacheCalls[i].time = cacheCalls[j].time}

\* the setCachedAST calls before call j that stored under its path
StoresUnder(j) ==
  {i \in 1..(j - 1) : cacheCalls[i].op = "set" /\ cacheCalls[i].path = cacheCalls[j].path}

\* C29 as stated: the cache is keyed by path together with modification time;
\* getCachedAST(path, t) returns the AST most recently stored for that path
\* with that time, and null only if none was stored for (path, t)
C29_KeyedByPathAndTime ==
  \A j \in 1..Len(cacheCalls) :
    cacheCalls[j].op = "get" =>
      cacheCalls[j].ast =
        IF StoresFor(j) = {} THEN Null ELSE cacheCalls[SetMax(StoresFor(j))].ast

\* C29: the cache keeps one entry per path; getCachedAST(path, t) returns the
\* AST of the most recent setCachedAST for that path if that call stored it
\* with a valid modification time equal to t, and null otherwise
C29_LatestPerPath ==
  \A j \in 1..Len(cacheCalls) :
    cacheCalls[j].op = "get" =>
      cacheCalls[j].ast =
        IF /\ StoresUnder(j) # {}
           /\ SameTime(cacheCalls[SetMax(StoresUnder(j))].time, cacheCalls[j].time)
        THEN cacheCalls[SetMax(StoresUnder(j))].ast
        ELSE Null

\* a hit after the path was stored twice with different times and ASTs
C29_Witness ==
  \E j \in 1..Len(cacheCalls) :
    /\ cacheCalls[j].op = "get"
    /\ cacheCalls[j].ast # Null
    /\ \E i \in StoresUnder(j) :
         /\ cacheCalls[i].time # cacheCalls[j].time
         /\ cacheCalls[i].ast # cacheCalls[j].ast

====
